---- MODULE Spec2Model ----
(***************************************************************************)
(* Supervision of one implementation under test by the subprocess adapters *)
(* of swhid/test-suite (harness/plugins/subprocess_adapter.py).            *)
(*                                                                         *)
(* Text is modelled as sequences of one-character strings, so that         *)
(* str.strip(), stdout[:200] and json.loads act on characters.             *)
(*                                                                         *)
(* The child of a call is waited on only by that call (Popen.communicate   *)
(* and psutil's wait), so its pid exists until then and signals reach it   *)
(* unless access is denied.  Time is counted in whole seconds spent in the *)
(* two blocking waits; the other statements take no time.  A child "exits" *)
(* when it has ended and its pipes are closed.                             *)
(***************************************************************************)
EXTENDS Integers, Sequences, FiniteSets, TLC

(***************************************************************************)
(* Characters and text helpers                                             *)
(***************************************************************************)
Ws == {" ", "\n", "\t", "\r"}
Digits == {"0", "1", "2", "3", "4", "5", "6", "7", "8", "9"}
DigitVal(c) ==
  CASE c = "0" -> 0 [] c = "1" -> 1 [] c = "2" -> 2 [] c = "3" -> 3
    [] c = "4" -> 4 [] c = "5" -> 5 [] c = "6" -> 6 [] c = "7" -> 7
    [] c = "8" -> 8 [] OTHER -> 9

\* s[:n]
Take(s, n) == SubSeq(s, 1, IF Len(s) < n THEN Len(s) ELSE n)

\* s[i-1:] in Python terms (1-based i)
Drop(s, i) == SubSeq(s, i, Len(s))

\* s.startswith(lit, i-1)
StartsWithAt(s, i, lit) ==
  /\ i + Len(lit) - 1 <= Len(s)
  /\ \A k \in 1..Len(lit) : s[i + k - 1] = lit[k]

RECURSIVE LStrip(_)
LStrip(s) == IF s # <<>> /\ Head(s) \in Ws THEN LStrip(Tail(s)) ELSE s

RECURSIVE RStrip(_)
RStrip(s) ==
  IF s # <<>> /\ s[Len(s)] \in Ws THEN RStrip(SubSeq(s, 1, Len(s) - 1)) ELSE s

\* str.strip()
Strip(s) == RStrip(LStrip(s))

(***************************************************************************)
(* JSON values as json.loads builds them.  Every value is a record with    *)
(* the same fields: t is the Python type, b the bool, n the int, s the     *)
(* text (str, or the literal of a float), kv the members of a dict (in     *)
(* document order, k the key) or the items of a list (k empty).            *)
(***************************************************************************)
JNone == [t |-> "NoneType", b |-> FALSE, n |-> 0, s |-> <<>>, kv |-> <<>>]
JBool(x) == [t |-> "bool", b |-> x, n |-> 0, s |-> <<>>, kv |-> <<>>]
JInt(x) == [t |-> "int", b |-> FALSE, n |-> x, s |-> <<>>, kv |-> <<>>]
JFloat(lit, zero) == [t |-> "float", b |-> zero, n |-> 0, s |-> lit, kv |-> <<>>]
JStr(x) == [t |-> "str", b |-> FALSE, n |-> 0, s |-> x, kv |-> <<>>]
JList(items) == [t |-> "list", b |-> FALSE, n |-> 0, s |-> <<>>, kv |-> items]
JDict(members) == [t |-> "dict", b |-> FALSE, n |-> 0, s |-> <<>>, kv |-> members]

\* bool(v): Python truthiness, the test behind "not v"
Truthy(v) ==
  CASE v.t = "NoneType" -> FALSE
    [] v.t = "bool" -> v.b
    [] v.t = "int" -> v.n # 0
    [] v.t = "float" -> ~v.b
    [] v.t = "str" -> v.s # <<>>
    [] OTHER -> v.kv # <<>>

\* dict.get(key, default): json.loads keeps the last of repeated keys
DictGet(d, key, default) ==
  LET idx == {i \in 1..Len(d.kv) : d.kv[i].k = key}
  IN IF idx = {} THEN default
     ELSE d.kv[CHOOSE i \in idx : \A j \in idx : j <= i].v

(***************************************************************************)
(* json.loads(text): the CPython decoder on the characters of the model    *)
(* (scanner.py_make_scanner, decoder.JSONObject, JSONArray, py_scanstring, *)
(* JSONDecoder.decode).  A result is ok with the value and the index after *)
(* it, or not ok with the JSONDecodeError message in err.                  *)
(***************************************************************************)
NoParse(reason) == [ok |-> FALSE, val |-> JNone, end |-> 0, err |-> reason]
Parsed(v, e) == [ok |-> TRUE, val |-> v, end |-> e, err |-> ""]

\* s[i-1:i] in Python terms: the character, or the empty string past the end
At(s, i) == IF i >= 1 /\ i <= Len(s) THEN s[i] ELSE ""

RECURSIVE SkipWs(_, _)
SkipWs(s, i) == IF At(s, i) \in Ws THEN SkipWs(s, i + 1) ELSE i

RECURSIVE ScanDigits(_, _)
ScanDigits(s, i) == IF At(s, i) \in Digits THEN ScanDigits(s, i + 1) ELSE i

RECURSIVE IntVal(_, _, _)
IntVal(s, from, to) ==
  IF from > to THEN 0 ELSE 10 * IntVal(s, from, to - 1) + DigitVal(s[to])

ControlChars == {"\n", "\t", "\r"}
Escapes == {"\"", "\\", "/", "b", "f", "n", "r", "t"}
Unescape(c) ==
  CASE c = "n" -> "\n" [] c = "t" -> "\t" [] c = "r" -> "\r"
    [] c = "b" -> "\\b" [] c = "f" -> "\f" [] OTHER -> c

\* py_scanstring(s, i-1, strict=True), i the index after the opening quote
RECURSIVE ScanString(_, _, _)
ScanString(s, i, acc) ==
  IF i > Len(s) THEN NoParse("Unterminated string starting at")
  ELSE IF s[i] = "\"" THEN Parsed(JStr(acc), i + 1)
  ELSE IF s[i] \in ControlChars THEN NoParse("Invalid control character at")
  ELSE IF s[i] = "\\"
    THEN IF At(s, i + 1) \in Escapes
           THEN ScanString(s, i + 2, Append(acc, Unescape(s[i + 1])))
           ELSE NoParse("Invalid \\escape")
  ELSE ScanString(s, i + 1, Append(acc, s[i]))

\* NUMBER_RE.match(s, i-1): (-?(?:0|[1-9]\d*))(\.\d+)?([eE][-+]?\d+)?
MatchNumber(s, i) ==
  LET j == IF At(s, i) = "-" THEN i + 1 ELSE i
      intEnd == IF At(s, j) = "0" THEN j + 1
                ELSE IF At(s, j) \in Digits THEN ScanDigits(s, j) ELSE 0
      fracEnd == IF At(s, intEnd) = "." /\ At(s, intEnd + 1) \in Digits
                   THEN ScanDigits(s, intEnd + 1) ELSE intEnd
      expAt == IF At(s, fracEnd + 1) \in {"+", "-"} THEN fracEnd + 2 ELSE fracEnd + 1
      expEnd == IF At(s, fracEnd) \in {"e", "E"} /\ At(s, expAt) \in Digits
                  THEN ScanDigits(s, expAt) ELSE fracEnd
      mantissaZero == \A k \in j..(fracEnd - 1) : s[k] \in {"0", "."}
  IN IF intEnd = 0 THEN NoParse("Expecting value")
     ELSE IF expEnd = intEnd
       THEN Parsed(JInt((IF j = i THEN 1 ELSE -1) * IntVal(s, j, intEnd - 1)), intEnd)
       ELSE Parsed(JFloat(SubSeq(s, i, expEnd - 1), mantissaZero), expEnd)

Lit(word) ==
  CASE word = "null" -> <<"n", "u", "l", "l">>
    [] word = "true" -> <<"t", "r", "u", "e">>
    [] word = "false" -> <<"f", "a", "l", "s", "e">>
    [] word = "NaN" -> <<"N", "a", "N">>
    [] word = "Infinity" -> <<"I", "n", "f", "i", "n", "i", "t", "y">>
    [] OTHER -> <<"-", "I", "n", "f", "i", "n", "i", "t", "y">>

RECURSIVE ScanOnce(_, _)
RECURSIVE ObjectMembers(_, _, _)
RECURSIVE ArrayItems(_, _, _)

\* decoder.JSONObject, i the index after the opening brace
JSONObject(s, i) ==
  LET j == SkipWs(s, i)
  IN IF At(s, j) = "}" THEN Parsed(JDict(<<>>), j + 1)
     ELSE IF At(s, j) # "\""
       THEN NoParse("Expecting property name enclosed in double quotes")
     ELSE ObjectMembers(s, j + 1, <<>>)

\* the member loop of JSONObject, i the index after the key's opening quote
ObjectMembers(s, i, acc) ==
  LET key == ScanString(s, i, <<>>)
      colon == SkipWs(s, key.end)
      v == ScanOnce(s, SkipWs(s, colon + 1))
      acc2 == Append(acc, [k |-> key.val.s, v |-> v.val])
      d == SkipWs(s, v.end)
      e == SkipWs(s, d + 1)
  IN IF ~key.ok THEN key
     ELSE IF At(s, colon) # ":" THEN NoParse("Expecting ':' delimiter")
     ELSE IF ~v.ok THEN v
     ELSE IF At(s, d) = "}" THEN Parsed(JDict(acc2), d + 1)
     ELSE IF At(s, d) # "," THEN NoParse("Expecting ',' delimiter")
     ELSE IF At(s, e) # "\""
       THEN NoParse("Expecting property name enclosed in double quotes")
     ELSE ObjectMembers(s, e + 1, acc2)

\* decoder.JSONArray, i the index after the opening bracket
JSONArray(s, i) ==
  LET j == SkipWs(s, i)
  IN IF At(s, j) = "]" THEN Parsed(JList(<<>>), j + 1)
     ELSE ArrayItems(s, j, <<>>)

ArrayItems(s, i, acc) ==
  LET v == ScanOnce(s, i)
      acc2 == Append(acc, [k |-> <<>>, v |-> v.val])
      d == SkipWs(s, v.end)
  IN IF ~v.ok THEN v
     ELSE IF At(s, d) = "]" THEN Parsed(JList(acc2), d + 1)
     ELSE IF At(s, d) # "," THEN NoParse("Expecting ',' delimiter")
     ELSE ArrayItems(s, SkipWs(s, d + 1), acc2)

\* scanner._scan_once(s, i-1)
ScanOnce(s, i) ==
  LET c == At(s, i)
      num == MatchNumber(s, i)
  IN CASE c = "\"" -> ScanString(s, i + 1, <<>>)
       [] c = "{" -> JSONObject(s, i + 1)
       [] c = "[" -> JSONArray(s, i + 1)
       [] c = "n" /\ StartsWithAt(s, i, Lit("null")) -> Parsed(JNone, i + 4)
       [] c = "t" /\ StartsWithAt(s, i, Lit("true")) -> Parsed(JBool(TRUE), i + 4)
       [] c = "f" /\ StartsWithAt(s, i, Lit("false")) -> Parsed(JBool(FALSE), i + 5)
       [] OTHER ->
            IF num.ok THEN num
            ELSE IF StartsWithAt(s, i, Lit("NaN"))
              THEN Parsed(JFloat(Lit("NaN"), FALSE), i + 3)
            ELSE IF StartsWithAt(s, i, Lit("Infinity"))
              THEN Parsed(JFloat(Lit("Infinity"), FALSE), i + 8)
            ELSE IF StartsWithAt(s, i, Lit("-Infinity"))
              THEN Parsed(JFloat(Lit("-Infinity"), FALSE), i + 9)
            ELSE NoParse("Expecting value")

\* json.loads(s) = JSONDecoder().decode(s)
JsonLoads(s) ==
  LET r == ScanOnce(s, SkipWs(s, 1))
  IN IF ~r.ok THEN r
     ELSE IF SkipWs(s, r.end) # Len(s) + 1 THEN NoParse("Extra data")
     ELSE r

(***************************************************************************)
(* Texts a child may write.  Each is the character sequence of the text in *)
(* the comment above it.                                                   *)
(***************************************************************************)
\* {"ok":true,"swhid":"swh:1"}
DocSuccess ==
  <<"{", "\"", "o", "k", "\"", ":", "t", "r", "u", "e", ",", "\"", "s", "w", "h", "i", "d", "\"", ":", "\"", "s", "w", "h", ":", "1", "\"", "}">>
\*  {"ok": true, "swhid": "swh:1"}\n
DocSuccessSpaced ==
  <<" ", "{", "\"", "o", "k", "\"", ":", " ", "t", "r", "u", "e", ",", " ", "\"", "s", "w", "h", "i", "d", "\"", ":", " ", "\"", "s", "w", "h", ":", "1", "\"", "}", "\n">>
\* {"ok":true,"swhid":"swh:2","metrics":{}}
DocSuccessMetrics ==
  <<"{", "\"", "o", "k", "\"", ":", "t", "r", "u", "e", ",", "\"", "s", "w", "h", "i", "d", "\"", ":", "\"", "s", "w", "h", ":", "2", "\"", ",", "\"", "m", "e", "t", "r", "i", "c", "s", "\"", ":", "{", "}", "}">>
\* {"ok":true,"swhid":"swh:1"}x
DocTrailing ==
  <<"{", "\"", "o", "k", "\"", ":", "t", "r", "u", "e", ",", "\"", "s", "w", "h", "i", "d", "\"", ":", "\"", "s", "w", "h", ":", "1", "\"", "}", "x">>
\* not json
DocNotJson ==
  <<"n", "o", "t", " ", "j", "s", "o", "n">>
\* {"ok":true}
DocNoSwhid ==
  <<"{", "\"", "o", "k", "\"", ":", "t", "r", "u", "e", "}">>
\* {"swhid":"swh:1"}
DocNoOk ==
  <<"{", "\"", "s", "w", "h", "i", "d", "\"", ":", "\"", "s", "w", "h", ":", "1", "\"", "}">>
\* {"ok":false,"error":{"code":"E1","message":"bad"}}
DocFailure ==
  <<"{", "\"", "o", "k", "\"", ":", "f", "a", "l", "s", "e", ",", "\"", "e", "r", "r", "o", "r", "\"", ":", "{", "\"", "c", "o", "d", "e", "\"", ":", "\"", "E", "1", "\"", ",", "\"", "m", "e", "s", "s", "a", "g", "e", "\"", ":", "\"", "b", "a", "d", "\"", "}", "}">>
\* {"ok":false}
DocFailureBare ==
  <<"{", "\"", "o", "k", "\"", ":", "f", "a", "l", "s", "e", "}">>
\* []
DocList ==
  <<"[", "]">>
\* null
DocNull ==
  <<"n", "u", "l", "l">>
\* NaN
DocNaN ==
  <<"N", "a", "N">>
\* {"ok":true,"swhid":""}
DocEmptySwhid ==
  <<"{", "\"", "o", "k", "\"", ":", "t", "r", "u", "e", ",", "\"", "s", "w", "h", "i", "d", "\"", ":", "\"", "\"", "}">>
\* {"ok":true,"swhid":7}
DocIntSwhid ==
  <<"{", "\"", "o", "k", "\"", ":", "t", "r", "u", "e", ",", "\"", "s", "w", "h", "i", "d", "\"", ":", "7", "}">>
\* {"ok":1,"swhid":"swh:1"}
DocOkNumber ==
  <<"{", "\"", "o", "k", "\"", ":", "1", ",", "\"", "s", "w", "h", "i", "d", "\"", ":", "\"", "s", "w", "h", ":", "1", "\"", "}">>
\* {"ok":false,"error":"bad"}
DocErrorText ==
  <<"{", "\"", "o", "k", "\"", ":", "f", "a", "l", "s", "e", ",", "\"", "e", "r", "r", "o", "r", "\"", ":", "\"", "b", "a", "d", "\"", "}">>
\*  \n
DocBlank ==
  <<" ", "\n">>

\* {"error": {"message": "no", "code": "E2"}, "ok": false}\n
DocFailureSpaced ==
  <<"{", "\"", "e", "r", "r", "o", "r", "\"", ":", " ", "{", "\"", "m", "e", "s", "s", "a", "g", "e", "\"", ":", " ", "\"", "n", "o", "\"", ",", " ", "\"", "c", "o", "d", "e", "\"", ":", " ", "\"", "E", "2", "\"", "}", ",", " ", "\"", "o", "k", "\"", ":", " ", "f", "a", "l", "s", "e", "}", "\n">>

\* 200 times z, then !
DocLong == [k \in 1..201 |-> IF k <= 200 THEN "z" ELSE "!"]

\* boom
ErrBoom == <<"b", "o", "o", "m">>
\* (a blank line)
ErrBlank == <<" ", "\n">>

StdoutDocs ==
  {DocSuccess, DocSuccessSpaced, DocSuccessMetrics, DocTrailing, DocNotJson,
   DocNoSwhid, DocNoOk, DocFailure, DocFailureBare, DocList, DocNull, DocNaN,
   DocEmptySwhid, DocIntSwhid, DocOkNumber, DocErrorText, DocBlank, DocLong, <<>>,
   DocFailureSpaced}
StderrTexts == {<<>>, ErrBoom, ErrBlank}
ExitCodes == {0, 1, -24}

(***************************************************************************)
(* Adapter configuration and the sizes of the model                        *)
(***************************************************************************)
TimeoutSeconds == 2      \* self.timeout of the adapter under check
MaxRssMb == 1            \* self.max_rss_mb of the adapter under check
MaxCpuTime == 1          \* self.max_cpu_time of the adapter under check
NumDirNames == 3         \* names tempfile.mkdtemp can draw
GraceSecondsLong == 5 + 1
GraceSeconds == 5        \* proc_monitor.wait(timeout=5)
OutputPrefixLenOffByOne == 200 + 1
OutputPrefixLen == 200   \* stdout[:200]

Adapters == {"SubprocessAdapter", "JSONProtocolAdapter"}
DirNames == 1..NumDirNames
CeilingKb == MaxRssMb * 1024
\* resident sizes in bytes psutil may report: none, exactly the ceiling, less
\* than one KB above it, one KB above it
SampleBytes == {0, CeilingKb * 1024, CeilingKb * 1024 + 1023, CeilingKb * 1024 + 1024}
\* peak resident sizes of a child, in KB: half and twice the ceiling
PeakKbs == {CeilingKb \div 2, CeilingKb * 2}
\* the exceptions of memory_info() that leave the sample unavailable
SampleErrors == {"NoSuchProcess", "AccessDenied"}

(***************************************************************************)
(* The outcome of a call: nothing yet, a returned value, or a raised       *)
(* exception.  The text of an exception is kept as its parts: head is the  *)
(* literal start of the f-string, n and m the numbers, detail the decoder's*)
(* message, body the interpolated text, errCode/errMsg the values of the   *)
(* child's error object.  parsed records that json.loads(stdout) ran.      *)
(***************************************************************************)
NoOutcome ==
  [status |-> "none", exc |-> "", head |-> "", n |-> 0, m |-> 0, detail |-> "",
   body |-> <<>>, value |-> JNone, errCode |-> JNone, errMsg |-> JNone,
   parsed |-> FALSE]
Returned(v) == [NoOutcome EXCEPT !.status = "returned", !.value = v, !.parsed = TRUE]
Raised(exc, head) == [NoOutcome EXCEPT !.status = "raised", !.exc = exc, !.head = head]

HeadTimeout == "Implementation timed out after"
HeadRss == "RSS limit exceeded"
HeadExit(adapter) ==
  IF adapter = "SubprocessAdapter" THEN "Implementation failed (exit" ELSE "Process failed (exit"
HeadJson == "Invalid JSON response"
HeadImplError == "Implementation error"
HeadNoSwhid == "No SWHID in response"
HeadNoPython == "Python interpreter not found"
HeadCpu == "CPU time limit exceeded"
HeadSubprocessFailed == "Subprocess execution failed"

\* Unknown error
TextUnknownError == <<"U", "n", "k", "n", "o", "w", "n", " ", "e", "r", "r", "o", "r">>
\* UNKNOWN
TextUnknown == <<"U", "N", "K", "N", "O", "W", "N">>
KeyOk == <<"o", "k">>
KeyError == <<"e", "r", "r", "o", "r">>
KeyMessage == <<"m", "e", "s", "s", "a", "g", "e">>
KeyCode == <<"c", "o", "d", "e">>
KeySwhid == <<"s", "w", "h", "i", "d">>

DigitChar(d) ==
  CASE d = 0 -> "0" [] d = 1 -> "1" [] d = 2 -> "2" [] d = 3 -> "3" [] d = 4 -> "4"
    [] d = 5 -> "5" [] d = 6 -> "6" [] d = 7 -> "7" [] d = 8 -> "8" [] OTHER -> "9"

\* str(n) for n >= 0
RECURSIVE NatText(_)
NatText(n) == IF n < 10 THEN <<DigitChar(n)>> ELSE Append(NatText(n \div 10), DigitChar(n % 10))

\* str(n), as an f-string interpolates an int
IntText(n) == IF n < 0 THEN <<"-">> \o NatText(0 - n) ELSE NatText(n)

\* the literal start of the non-zero-exit message of each adapter
ExitHeadText(head) ==
  IF head = "Implementation failed (exit"
    THEN <<"I", "m", "p", "l", "e", "m", "e", "n", "t", "a", "t", "i", "o", "n", " ", "f", "a", "i", "l", "e", "d", " ", "(", "e", "x", "i", "t", " ">>
    ELSE <<"P", "r", "o", "c", "e", "s", "s", " ", "f", "a", "i", "l", "e", "d", " ", "(", "e", "x", "i", "t", " ">>

\* f"Implementation failed (exit {process.returncode}): {error_msg}"
ExitMessageText(o) ==
  ExitHeadText(o.head) \o IntText(o.n) \o <<")", ":", " ">> \o o.body

\* the same choice with stdout consulted before stderr
ErrorMsgStdoutFirst(stdout, stderr) ==
  IF Strip(stdout) # <<>> THEN Strip(stdout)
  ELSE IF Strip(stderr) # <<>> THEN Strip(stderr)
  ELSE <<"U", "n", "k", "n", "o", "w", "n", " ", "e", "r", "r", "o", "r">>

\* stderr.strip() or stdout.strip() or "Unknown error"
ErrorMsg(stdout, stderr) ==
  IF Strip(stderr) # <<>> THEN Strip(stderr)
  ELSE IF Strip(stdout) # <<>> THEN Strip(stdout)
  ELSE TextUnknownError

\* the same statements with the two keys of the error object exchanged
HandleResponseKeysExchanged(response) ==
  LET ok == DictGet(response, KeyOk, JNone)
      error == DictGet(response, KeyError, JDict(<<>>))
      swhid == DictGet(response, KeySwhid, JNone)
  IN IF response.t # "dict" THEN [Raised("AttributeError", "") EXCEPT !.parsed = TRUE]
     ELSE IF ~Truthy(ok)
       THEN IF error.t # "dict" THEN [Raised("AttributeError", "") EXCEPT !.parsed = TRUE]
            ELSE [Raised("RuntimeError", HeadImplError) EXCEPT
                    !.errMsg = DictGet(error, KeyCode, JStr(TextUnknownError)),
                    !.errCode = DictGet(error, KeyMessage, JStr(TextUnknown)),
                    !.parsed = TRUE]
     ELSE IF ~Truthy(swhid)
       THEN [Raised("RuntimeError", HeadNoSwhid) EXCEPT !.parsed = TRUE]
     ELSE Returned(swhid)

\* the same statements without the check that swhid is there
HandleResponseNoSwhidCheck(response) ==
  LET ok == DictGet(response, KeyOk, JNone)
      error == DictGet(response, KeyError, JDict(<<>>))
      swhid == DictGet(response, KeySwhid, JNone)
  IN IF response.t # "dict" THEN [Raised("AttributeError", "") EXCEPT !.parsed = TRUE]
     ELSE IF ~Truthy(ok)
       THEN IF error.t # "dict" THEN [Raised("AttributeError", "") EXCEPT !.parsed = TRUE]
            ELSE [Raised("RuntimeError", HeadImplError) EXCEPT
                    !.errMsg = DictGet(error, KeyMessage, JStr(TextUnknownError)),
                    !.errCode = DictGet(error, KeyCode, JStr(TextUnknown)),
                    !.parsed = TRUE]
     ELSE Returned(swhid)

\* the statements after json.loads: response.get("ok") ... return swhid
HandleResponse(response) ==
  LET ok == DictGet(response, KeyOk, JNone)
      error == DictGet(response, KeyError, JDict(<<>>))
      swhid == DictGet(response, KeySwhid, JNone)
  IN IF response.t # "dict" THEN [Raised("AttributeError", "") EXCEPT !.parsed = TRUE]
     ELSE IF ~Truthy(ok)
       THEN IF error.t # "dict" THEN [Raised("AttributeError", "") EXCEPT !.parsed = TRUE]
            ELSE [Raised("RuntimeError", HeadImplError) EXCEPT
                    !.errMsg = DictGet(error, KeyMessage, JStr(TextUnknownError)),
                    !.errCode = DictGet(error, KeyCode, JStr(TextUnknown)),
                    !.parsed = TRUE]
     ELSE IF ~Truthy(swhid)
       THEN [Raised("RuntimeError", HeadNoSwhid) EXCEPT !.parsed = TRUE]
     ELSE Returned(swhid)

\* try: json.loads(stdout) except JSONDecodeError, then the response handling
ParseResponse(stdout) ==
  LET r == JsonLoads(stdout)
  IN IF ~r.ok
       THEN [Raised("RuntimeError", HeadJson) EXCEPT
               !.detail = r.err, !.body = Take(stdout, OutputPrefixLen), !.parsed = TRUE]
       ELSE HandleResponse(r.val)

\* the same checks with the RSS comparison made inclusive
ClassifyOutcomeInclusive(adapter, maxRssKb, returncode, stdout, stderr) ==
  IF maxRssKb >= MaxRssMb * 1024
    THEN [Raised("RuntimeError", HeadRss) EXCEPT !.n = maxRssKb, !.m = MaxRssMb * 1024]
  ELSE IF returncode # 0
    THEN [Raised("RuntimeError", HeadExit(adapter)) EXCEPT
            !.n = returncode, !.body = ErrorMsg(stdout, stderr)]
  ELSE ParseResponse(stdout)

\* the same checks with the exit code looked at before the RSS
ClassifyOutcomeExitFirst(adapter, maxRssKb, returncode, stdout, stderr) ==
  IF returncode # 0
    THEN [Raised("RuntimeError", HeadExit(adapter)) EXCEPT
            !.n = returncode, !.body = ErrorMsg(stdout, stderr)]
  ELSE IF maxRssKb > MaxRssMb * 1024
    THEN [Raised("RuntimeError", HeadRss) EXCEPT !.n = maxRssKb, !.m = MaxRssMb * 1024]
  ELSE ParseResponse(stdout)

\* the same checks with the RSS comparison left out of JSONProtocolAdapter
ClassifyOutcomeTwinsDiffer(adapter, maxRssKb, returncode, stdout, stderr) ==
  IF adapter = "SubprocessAdapter" /\ maxRssKb > MaxRssMb * 1024
    THEN [Raised("RuntimeError", HeadRss) EXCEPT !.n = maxRssKb, !.m = MaxRssMb * 1024]
  ELSE IF returncode # 0
    THEN [Raised("RuntimeError", HeadExit(adapter)) EXCEPT
            !.n = returncode, !.body = ErrorMsg(stdout, stderr)]
  ELSE ParseResponse(stdout)

\* the checks after communicate(): RSS limit, exit code, response
ClassifyOutcome(adapter, maxRssKb, returncode, stdout, stderr) ==
  IF maxRssKb > MaxRssMb * 1024
    THEN [Raised("RuntimeError", HeadRss) EXCEPT !.n = maxRssKb, !.m = MaxRssMb * 1024]
  ELSE IF returncode # 0
    THEN [Raised("RuntimeError", HeadExit(adapter)) EXCEPT
            !.n = returncode, !.body = ErrorMsg(stdout, stderr)]
  ELSE ParseResponse(stdout)

\* raise RuntimeError(f"Implementation timed out after {self.timeout}s")
TimedOutError == [Raised("RuntimeError", HeadTimeout) EXCEPT !.n = TimeoutSeconds]

(***************************************************************************)
(* Environments are functions from variable names to values.  The builder  *)
(* prepare_subprocess_environment lives in harness/utils/subprocess_utils, *)
(* which is not among the sources: it is modelled from section 4.1 of the  *)
(* specification.  The adapters call it and hand its result to Popen.      *)
(***************************************************************************)
\* the variable that carries the project root
MarkerVar == "PROJECT_ROOT_MARKER"
\* str(Path(__file__).parent.parent.parent.absolute())
ProjectRoot == "project_root"
EnvNames == {"PATH", "HOME", "API_TOKEN", MarkerVar}
EmptyEnv == [v \in {} |-> ""]
\* os.environ of the calling process: any of the names, each with its value
CallerEnvs == {[v \in S |-> "inherited"] : S \in SUBSET EnvNames}
PlainEnv == [v \in {"PATH", "HOME"} |-> "inherited"]

prepare_subprocess_environment(clean_env, project_root, environ) ==
  LET base == IF clean_env
                THEN [v \in {"PATH"} |->
                        IF "PATH" \in DOMAIN environ THEN environ["PATH"] ELSE ""]
                ELSE environ
  IN [v \in DOMAIN base \cup {MarkerVar} |->
        IF v = MarkerVar THEN project_root ELSE base[v]]

\* the same call with the clean_env flag of the adapter dropped
PrepareEnvironmentInherit(clean_env, environ) ==
  prepare_subprocess_environment(FALSE, ProjectRoot, environ)

\* self._prepare_environment()
PrepareEnvironment(clean_env, environ) ==
  prepare_subprocess_environment(clean_env, ProjectRoot, environ)

(***************************************************************************)
(* State.  call[i] is the frame of compute call i and its child process;   *)
(* fs[d] is 0 when directory name d does not exist, else the call that     *)
(* created it; proc is the process that runs the harness; run is one       *)
(* payload's round of tests in SwhidHarness.run_tests.                     *)
(***************************************************************************)
VARIABLES call, fs, proc, run
vars == <<call, fs, proc, run>>

\* str values that may be None
NoneText == [isNone |-> TRUE, text |-> ""]
SomeText(x) == [isNone |-> FALSE, text |-> x]

\* the configured implementations
Impls == {"python", "rust", "git"}
NoTest == [pc |-> "absent", outcome |-> NoOutcome, result |-> <<>>, escaped |-> FALSE]
NoComparison == [results |-> <<>>, all_match |-> FALSE, expected_swhid |-> JNone]

\* a round of run_tests for one payload: the implementations under test, the
\* expected_swhid of the payload, the future of each implementation, the
\* results dict in insertion order (keys and values), and the
\* ComparisonResult once made
IdleRun ==
  [implementations |-> {}, expected_swhid |-> JNone, test |-> [p \in Impls |-> NoTest],
   keys |-> <<>>, results |-> <<>>, compared |-> FALSE, comparison |-> NoComparison]

\* os.name of the platforms told apart by the adapters
OsNames == {"posix", "nt"}
\* the limits of a child that were installed before exec: none, or the two
\* ceilings handed to set_resource_limits
NoLimits == [installed |-> FALSE, max_rss_mb |-> 0, max_cpu_time |-> 0]
\* set_resource_limits(max_rss_mb, max_cpu_time), run in the child between
\* fork and exec as preexec_fn: it is in harness/utils/subprocess_utils,
\* not among the sources, and by section 4.2 step 2 of the specification
\* it installs the address-space and the CPU-time ceiling it is given
set_resource_limits(max_rss_mb, max_cpu_time) ==
  [installed |-> TRUE, max_rss_mb |-> max_rss_mb, max_cpu_time |-> max_cpu_time]

\* preexec_fn=self._set_resource_limits if os.name != 'nt' else None
PreexecFn(os_name) ==
  IF os_name # "nt" THEN set_resource_limits(MaxRssMb, MaxCpuTime) ELSE NoLimits

IdleCall ==
  [pc |-> "idle", adapter |-> "", workDir |-> 0,
   child |-> "none", exitCode |-> 0, out |-> <<>>, err |-> <<>>, peakKb |-> 0,
   stdout |-> <<>>, stderr |-> <<>>, returncode |-> 0, maxRssKb |-> 0,
   sampled |-> "none", rss |-> 0, expired |-> FALSE, clock |-> 0, grace |-> 0,
   termSent |-> FALSE, killSent |-> FALSE, outcome |-> NoOutcome,
   mk |-> 0, rm |-> 0, rmFailed |-> FALSE, spawned |-> 0, written |-> 0,
   cleanEnv |-> FALSE, environ |-> EmptyEnv, env |-> EmptyEnv, childEnv |-> EmptyEnv,
   useSubprocess |-> TRUE, cpuExceeded |-> FALSE,
   limitSet |-> "none", startRssKb |-> 0, endRssKb |-> 0, cpuMs |-> 0,
   ran |-> "none", result |-> JNone, grandchild |-> "none",
   osName |-> "posix", childLimits |-> NoLimits, reads |-> 0, invoked |-> 0,
   graceExpired |-> FALSE]

Set(i, r) == call' = [call EXCEPT ![i] = r]

\* RLIM_INFINITY
Unlimited == 0
\* the harness process: its address-space limit in MB
IdleProc == [rlimitAs |-> Unlimited]

InitFor(C) ==
  /\ call = [i \in C |-> IdleCall]
  /\ fs = [d \in DirNames |-> 0]
  /\ proc = IdleProc
  /\ run = IdleRun

\* the module of the adapters is imported: "import resource" at its top
\* finds no such module where os.name is 'nt'
ImportModule(i) ==
  /\ call[i].pc = "import"
  /\ \/ /\ call[i].osName # "nt"
        /\ Set(i, [call[i] EXCEPT !.pc = "idle"])
     \/ /\ call[i].osName = "nt"
        /\ Set(i, [call[i] EXCEPT !.pc = "done",
                     !.outcome = Raised("ModuleNotFoundError", "")])
  /\ UNCHANGED <<fs, proc, run>>

\* compute_swhid entered: request and environment built
Begin(i, As, Cleans, Environs) ==
  /\ call[i].pc = "idle"
  /\ \E a \in As, c \in Cleans, e \in Environs :
       Set(i, [call[i] EXCEPT !.pc = "mkdtemp", !.adapter = a, !.cleanEnv = c,
                 !.environ = e, !.env = PrepareEnvironment(c, e)])
  /\ UNCHANGED <<fs, proc, run>>

\* the same creation without the check that the name is new
MkdtempAnyName(i) ==
  /\ call[i].pc = "mkdtemp"
  /\ \E d \in DirNames :
       /\ fs' = [fs EXCEPT ![d] = i]
       /\ Set(i, [call[i] EXCEPT
              !.pc = IF call[i].adapter = "SubprocessAdapter" THEN "which" ELSE "popen",
              !.workDir = d, !.mk = @ + 1])
  /\ UNCHANGED <<proc, run>>

\* work_dir = tempfile.mkdtemp(prefix="swhid_impl_"): a name that does not
\* exist is created, or the call ends with the OSError of mkdtemp
Mkdtemp(i) ==
  /\ call[i].pc = "mkdtemp"
  /\ \/ \E d \in DirNames :
          /\ fs[d] = 0
          /\ fs' = [fs EXCEPT ![d] = i]
          /\ Set(i, [call[i] EXCEPT
                 !.pc = IF call[i].adapter = "SubprocessAdapter" THEN "which" ELSE "popen",
                 !.workDir = d, !.mk = @ + 1])
     \/ /\ Set(i, [call[i] EXCEPT !.pc = "done", !.outcome = Raised("OSError", "")])
        /\ UNCHANGED fs
  /\ UNCHANGED <<proc, run>>

\* the same lookup placed before the try statement
WhichBeforeTry(i) ==
  /\ call[i].pc = "which"
  /\ \/ Set(i, [call[i] EXCEPT !.pc = "popen"])
     \/ Set(i, [call[i] EXCEPT !.pc = "done",
                  !.outcome = Raised("RuntimeError", HeadNoPython)])
  /\ UNCHANGED <<fs, proc, run>>

\* python = shutil.which("python3") or shutil.which("python")
Which(i) ==
  /\ call[i].pc = "which"
  /\ \/ Set(i, [call[i] EXCEPT !.pc = "popen"])
     \/ Set(i, [call[i] EXCEPT !.pc = "finally",
                  !.outcome = Raised("RuntimeError", HeadNoPython)])
  /\ UNCHANGED <<fs, proc, run>>

\* process = subprocess.Popen(...): the child runs, or Popen raises
Popen(i) ==
  /\ call[i].pc = "popen"
  /\ \/ Set(i, [call[i] EXCEPT !.pc = "monitor", !.child = "running", !.spawned = @ + 1,
                  !.childEnv = call[i].env,
                  !.childLimits = PreexecFn(call[i].osName)])
     \/ Set(i, [call[i] EXCEPT !.pc = "finally", !.outcome = Raised("OSError", "")])
  /\ UNCHANGED <<fs, proc, run>>

\* proc_monitor = psutil.Process(process.pid); max_rss_kb = 0
Monitor(i) ==
  /\ call[i].pc = "monitor"
  /\ \/ Set(i, [call[i] EXCEPT !.pc = "communicate", !.maxRssKb = 0, !.clock = 0])
     \/ Set(i, [call[i] EXCEPT !.pc = "finally", !.outcome = Raised("psutil.Error", "")])
  /\ UNCHANGED <<fs, proc, run>>

\* the child ends by itself: exit code, what it wrote, its peak resident size
ChildExit(i, Codes, Outs, Errs, Peaks) ==
  /\ call[i].pc \in {"communicate", "terminate", "gracewait", "kill"}
  /\ call[i].child = "running"
  /\ \E c \in Codes, o \in Outs, e \in Errs, p \in Peaks :
       Set(i, [call[i] EXCEPT !.child = "zombie", !.exitCode = c, !.out = o,
                 !.err = e, !.peakKb = p])
  /\ UNCHANGED <<fs, proc, run>>

\* the child uses more CPU time than the limit installed before exec by
\* set_resource_limits(max_rss_mb, max_cpu_time): the kernel ends it with
\* SIGXCPU (signal 24)
CpuLimit(i) ==
  /\ call[i].pc \in {"communicate", "terminate", "gracewait", "kill"}
  /\ call[i].child = "running"
  /\ Set(i, [call[i] EXCEPT !.child = "zombie", !.exitCode = -24, !.out = <<>>,
               !.err = <<>>, !.peakKb = CeilingKb \div 2, !.cpuExceeded = TRUE])
  /\ UNCHANGED <<fs, proc, run>>

\* the running child starts a process of its own.  Popen is called without
\* start_new_session or process_group, and terminate() and kill() of
\* psutil.Process(process.pid) signal that one pid: no step of the call
\* acts on the grandchild
SpawnGrandchild(i) ==
  /\ call[i].child = "running"
  /\ call[i].grandchild = "none"
  /\ Set(i, [call[i] EXCEPT !.grandchild = "running"])
  /\ UNCHANGED <<fs, proc, run>>

\* the grandchild ends by itself
GrandchildExit(i) ==
  /\ call[i].grandchild = "running"
  /\ Set(i, [call[i] EXCEPT !.grandchild = "exited"])
  /\ UNCHANGED <<fs, proc, run>>

\* one second passes in a blocking wait on a child that still runs
Tick(i) ==
  /\ call[i].child = "running"
  /\ \/ /\ call[i].pc = "communicate"
        /\ call[i].clock < TimeoutSeconds
        /\ Set(i, [call[i] EXCEPT !.clock = @ + 1])
     \/ /\ call[i].pc = "gracewait"
        /\ call[i].grace < GraceSeconds
        /\ Set(i, [call[i] EXCEPT !.grace = @ + 1])
  /\ UNCHANGED <<fs, proc, run>>

\* stdout, stderr = process.communicate(input=request_json, timeout=self.timeout)
\* returns: the request was written, the child has exited and is reaped
CommunicateReturn(i) ==
  /\ call[i].pc = "communicate"
  /\ call[i].child = "zombie"
  /\ Set(i, [call[i] EXCEPT !.pc = "sample", !.child = "reaped", !.written = @ + 1,
               !.reads = @ + 1, !.stdout = call[i].out, !.stderr = call[i].err,
               !.returncode = call[i].exitCode])
  /\ UNCHANGED <<fs, proc, run>>

\* process.communicate raises subprocess.TimeoutExpired
CommunicateTimeout(i) ==
  /\ call[i].pc = "communicate"
  /\ call[i].clock = TimeoutSeconds
  /\ Set(i, [call[i] EXCEPT !.pc = "terminate", !.expired = TRUE, !.written = @ + 1])
  /\ UNCHANGED <<fs, proc, run>>

\* max_rss_kb = int(proc_monitor.memory_info().rss / 1024), or the sample is
\* unavailable (NoSuchProcess, AccessDenied) and max_rss_kb stays 0.  The
\* child has been reaped by communicate(): psutil finds no process, or
\* reports on the process that has taken the pid since.
Sample(i, Bytes, Unavailable) ==
  /\ call[i].pc = "sample"
  /\ \/ \E x \in Unavailable :
          Set(i, [call[i] EXCEPT !.pc = "classify", !.sampled = x])
     \/ \E b \in Bytes :
          Set(i, [call[i] EXCEPT !.pc = "classify", !.sampled = "rss", !.rss = b,
                    !.maxRssKb = b \div 1024])
  /\ UNCHANGED <<fs, proc, run>>

\* the same checks with a failed call started over
ClassifyAndRetry(i) ==
  /\ call[i].pc = "classify"
  /\ LET o == ClassifyOutcome(call[i].adapter, call[i].maxRssKb,
                call[i].returncode, call[i].stdout, call[i].stderr)
     IN IF o.status = "raised" /\ call[i].spawned < 2
          THEN Set(i, [call[i] EXCEPT !.pc = "popen"])
          ELSE Set(i, [call[i] EXCEPT !.pc = "finally", !.outcome = o])
  /\ UNCHANGED <<fs, proc, run>>

\* the RSS check, the exit-code check and the response handling
Classify(i) ==
  /\ call[i].pc = "classify"
  /\ Set(i, [call[i] EXCEPT !.pc = "finally",
               !.outcome = ClassifyOutcome(call[i].adapter, call[i].maxRssKb,
                              call[i].returncode, call[i].stdout, call[i].stderr)])
  /\ UNCHANGED <<fs, proc, run>>

\* the same handler with the kill sent when terminate() raised
TerminateThenKill(i) ==
  /\ call[i].pc = "terminate"
  /\ \/ Set(i, [call[i] EXCEPT !.pc = "gracewait", !.termSent = TRUE, !.grace = 0])
     \/ Set(i, [call[i] EXCEPT !.pc = "kill"])
  /\ UNCHANGED <<fs, proc, run>>

\* except subprocess.TimeoutExpired: proc_monitor.terminate() succeeds, or
\* raises AccessDenied, which is passed over; then the timeout is raised
Terminate(i) ==
  /\ call[i].pc = "terminate"
  /\ \/ Set(i, [call[i] EXCEPT !.pc = "gracewait", !.termSent = TRUE, !.grace = 0])
     \/ Set(i, [call[i] EXCEPT !.pc = "finally", !.outcome = TimedOutError])
  /\ UNCHANGED <<fs, proc, run>>

\* the same return of wait, falling through to the checks instead of raising
WaitReturnFallThrough(i) ==
  /\ call[i].pc = "gracewait"
  /\ call[i].child = "zombie"
  /\ Set(i, [call[i] EXCEPT !.pc = "classify", !.child = "reaped",
               !.stdout = call[i].out, !.stderr = call[i].err,
               !.returncode = call[i].exitCode])
  /\ UNCHANGED <<fs, proc, run>>

\* proc_monitor.wait(timeout=5) returns: the child has exited and is reaped
WaitReturn(i) ==
  /\ call[i].pc = "gracewait"
  /\ call[i].child = "zombie"
  /\ Set(i, [call[i] EXCEPT !.pc = "finally", !.child = "reaped",
               !.outcome = TimedOutError])
  /\ UNCHANGED <<fs, proc, run>>

\* proc_monitor.wait(timeout=5) raises psutil.TimeoutExpired
WaitTimeout(i) ==
  /\ call[i].pc = "gracewait"
  /\ call[i].grace = GraceSeconds
  /\ Set(i, [call[i] EXCEPT !.pc = "kill", !.graceExpired = TRUE])
  /\ UNCHANGED <<fs, proc, run>>

\* proc_monitor.kill(), then the timeout is raised; nothing waits for the
\* child, which SIGKILL ends if it still runs
Kill(i) ==
  /\ call[i].pc = "kill"
  /\ Set(i, [call[i] EXCEPT !.pc = "finally", !.killSent = TRUE,
               !.child = "zombie",
               !.exitCode = IF call[i].child = "running" THEN -9 ELSE @,
               !.outcome = TimedOutError])
  /\ UNCHANGED <<fs, proc, run>>

\* the same cleanup with the failure to delete raised out of the call
FinallyRaises(i) ==
  /\ call[i].pc = "finally"
  /\ \/ /\ fs' = [fs EXCEPT ![call[i].workDir] = 0]
        /\ Set(i, [call[i] EXCEPT !.pc = "done", !.rm = @ + 1])
     \/ /\ UNCHANGED fs
        /\ Set(i, [call[i] EXCEPT !.pc = "done", !.rm = @ + 1, !.rmFailed = TRUE,
                     !.outcome = Raised("OSError", "")])
  /\ UNCHANGED <<proc, run>>

\* finally: shutil.rmtree(work_dir, ignore_errors=True); a failure to delete
\* is suppressed and leaves the directory
Finally(i) ==
  /\ call[i].pc = "finally"
  /\ \/ /\ fs' = [fs EXCEPT ![call[i].workDir] = 0]
        /\ Set(i, [call[i] EXCEPT !.pc = "done", !.rm = @ + 1])
     \/ /\ UNCHANGED fs
        /\ Set(i, [call[i] EXCEPT !.pc = "done", !.rm = @ + 1, !.rmFailed = TRUE])
  /\ UNCHANGED <<proc, run>>

(***************************************************************************)
(* The in-process mode, SubprocessAdapter._compute_with_monitoring.        *)
(* run_with_timeout is in harness/utils/subprocess_utils, not among the    *)
(* sources: by section 4.5 of the specification and the except clauses of  *)
(* its caller it returns the value of the function, lets the function's    *)
(* exception through, or raises subprocess.TimeoutExpired.                 *)
(***************************************************************************)
RunWithTimeoutResults == {"returned", "raised", "TimeoutExpired"}
\* resident sizes of the harness process, in KB: half and twice the ceiling
ProcessRssKbs == {CeilingKb \div 2, CeilingKb * 2}
\* CPU milliseconds spent during the call: at the ceiling and just over it
CpuMillis == {MaxCpuTime * 1000, MaxCpuTime * 1000 + 1}
\* what the wrapped implementation returns
ImplResults == {JStr(<<"s", "w", "h", ":", "1">>)}

\* compute_swhid entered with use_subprocess false
BeginMonitoring(i) ==
  /\ call[i].pc = "idle"
  /\ Set(i, [call[i] EXCEPT !.pc = "setrlimit", !.adapter = "SubprocessAdapter",
               !.useSubprocess = FALSE])
  /\ UNCHANGED <<fs, proc, run>>

\* resource.setrlimit(resource.RLIMIT_AS, (max_rss_bytes, max_rss_bytes)) on
\* the calling process: the limit is lowered, or ValueError/OSError is logged
\* (a hard limit cannot be raised again)
SetRlimit(i) ==
  /\ call[i].pc = "setrlimit"
  /\ \/ /\ proc.rlimitAs = Unlimited \/ MaxRssMb <= proc.rlimitAs
        /\ proc' = [proc EXCEPT !.rlimitAs = MaxRssMb]
        /\ Set(i, [call[i] EXCEPT !.pc = "startmetrics", !.limitSet = "set"])
     \/ /\ UNCHANGED proc
        /\ Set(i, [call[i] EXCEPT !.pc = "startmetrics", !.limitSet = "warning"])
  /\ UNCHANGED <<fs, run>>

\* process = psutil.Process(); start_rss, start_cpu, start_time
StartMetrics(i) ==
  /\ call[i].pc = "startmetrics"
  /\ \E r \in ProcessRssKbs :
       Set(i, [call[i] EXCEPT !.pc = "run", !.startRssKb = r])
  /\ UNCHANGED <<fs, proc, run>>

\* result = self._run_with_timeout(lambda: wrapped_impl.compute_swhid(...),
\* self.timeout), with the two except clauses of the try statement
RunWithTimeout(i) ==
  /\ call[i].pc = "run"
  /\ \E how \in RunWithTimeoutResults :
       \/ /\ how = "returned"
          /\ \E v \in ImplResults :
               Set(i, [call[i] EXCEPT !.pc = "checklimits", !.ran = how, !.result = v,
                         !.invoked = @ + 1])
       \/ /\ how = "raised"
          /\ Set(i, [call[i] EXCEPT !.pc = "done", !.ran = how, !.invoked = @ + 1,
                 !.outcome = [Raised("RuntimeError", HeadSubprocessFailed)
                                EXCEPT !.detail = "exception of the implementation"]])
       \/ /\ how = "TimeoutExpired"
          /\ Set(i, [call[i] EXCEPT !.pc = "done", !.ran = how, !.invoked = @ + 1,
                       !.outcome = TimedOutError])
  /\ UNCHANGED <<fs, proc, run>>

\* the same checks without the one of the CPU time
CheckLimitsRssOnly(i) ==
  /\ call[i].pc = "checklimits"
  /\ \E r \in ProcessRssKbs, c \in CpuMillis :
       LET max_rss_kb == IF call[i].startRssKb > r THEN call[i].startRssKb ELSE r
           o == IF max_rss_kb > MaxRssMb * 1024
                  THEN [Raised("RuntimeError", HeadSubprocessFailed) EXCEPT
                          !.detail = HeadRss, !.n = max_rss_kb, !.m = MaxRssMb * 1024]
                ELSE Returned(call[i].result)
       IN Set(i, [call[i] EXCEPT !.pc = "done", !.endRssKb = r, !.cpuMs = c,
                    !.maxRssKb = max_rss_kb, !.outcome = o])
  /\ UNCHANGED <<fs, proc, run>>

\* the final metrics and the two limit checks; their RuntimeError is raised
\* inside the try statement and caught by "except Exception"
CheckLimits(i) ==
  /\ call[i].pc = "checklimits"
  /\ \E r \in ProcessRssKbs, c \in CpuMillis :
       LET max_rss_kb == IF call[i].startRssKb > r THEN call[i].startRssKb ELSE r
           o == IF max_rss_kb > MaxRssMb * 1024
                  THEN [Raised("RuntimeError", HeadSubprocessFailed) EXCEPT
                          !.detail = HeadRss, !.n = max_rss_kb, !.m = MaxRssMb * 1024]
                ELSE IF c > MaxCpuTime * 1000
                  THEN [Raised("RuntimeError", HeadSubprocessFailed) EXCEPT
                          !.detail = HeadCpu, !.n = c, !.m = MaxCpuTime * 1000]
                ELSE Returned(call[i].result)
       IN Set(i, [call[i] EXCEPT !.pc = "done", !.endRssKb = r, !.cpuMs = c,
                    !.maxRssKb = max_rss_kb, !.outcome = o])
  /\ UNCHANGED <<fs, proc, run>>

\* one compute call, every child behaviour
Init == InitFor({1})
Next ==
  \/ \E i \in DOMAIN call : Begin(i, Adapters, {TRUE}, {PlainEnv})
  \/ \E i \in DOMAIN call : Mkdtemp(i)
  \/ \E i \in DOMAIN call : Which(i)
  \/ \E i \in DOMAIN call : Popen(i)
  \/ \E i \in DOMAIN call : Monitor(i)
  \/ \E i \in DOMAIN call : ChildExit(i, ExitCodes, StdoutDocs, StderrTexts, PeakKbs)
  \/ \E i \in DOMAIN call : Tick(i)
  \/ \E i \in DOMAIN call : CommunicateReturn(i)
  \/ \E i \in DOMAIN call : CommunicateTimeout(i)
  \/ \E i \in DOMAIN call : Sample(i, SampleBytes, SampleErrors)
  \/ \E i \in DOMAIN call : Classify(i)
  \/ \E i \in DOMAIN call : Terminate(i)
  \/ \E i \in DOMAIN call : WaitReturn(i)
  \/ \E i \in DOMAIN call : WaitTimeout(i)
  \/ \E i \in DOMAIN call : Kill(i)
  \/ \E i \in DOMAIN call : Finally(i)
  \/ \E i \in DOMAIN call : CpuLimit(i)
  \/ \E i \in DOMAIN call : BeginMonitoring(i)
  \/ \E i \in DOMAIN call : SetRlimit(i)
  \/ \E i \in DOMAIN call : StartMetrics(i)
  \/ \E i \in DOMAIN call : RunWithTimeout(i)
  \/ \E i \in DOMAIN call : CheckLimits(i)
Spec == Init /\ [][Next]_vars

\* concurrent compute calls, as issued by a thread pool; the children are
\* well-behaved or fail with an exit code
ConcCalls == {1, 2}
ConcCodes == {0, 1}
ConcDocs == {DocSuccess}
ConcTexts == {<<>>}
InitConc == InitFor(ConcCalls)
NextConc ==
  \/ \E i \in DOMAIN call : Begin(i, {"SubprocessAdapter"}, {TRUE}, {PlainEnv})
  \/ \E i \in DOMAIN call : Mkdtemp(i)
  \/ \E i \in DOMAIN call : Which(i)
  \/ \E i \in DOMAIN call : Popen(i)
  \/ \E i \in DOMAIN call : Monitor(i)
  \/ \E i \in DOMAIN call : ChildExit(i, ConcCodes, ConcDocs, ConcTexts, {CeilingKb \div 2})
  \/ \E i \in DOMAIN call : Tick(i)
  \/ \E i \in DOMAIN call : CommunicateReturn(i)
  \/ \E i \in DOMAIN call : CommunicateTimeout(i)
  \/ \E i \in DOMAIN call : Sample(i, {}, {"NoSuchProcess"})
  \/ \E i \in DOMAIN call : Classify(i)
  \/ \E i \in DOMAIN call : Terminate(i)
  \/ \E i \in DOMAIN call : WaitReturn(i)
  \/ \E i \in DOMAIN call : WaitTimeout(i)
  \/ \E i \in DOMAIN call : Kill(i)
  \/ \E i \in DOMAIN call : Finally(i)
SpecConc == InitConc /\ [][NextConc]_vars

\* one compute call of either adapter, with or without clean_env, from every
\* environment of the calling process; the child is well-behaved, fails or hangs
InitEnv == InitFor({1})
NextEnv ==
  \/ \E i \in DOMAIN call : Begin(i, Adapters, BOOLEAN, CallerEnvs)
  \/ \E i \in DOMAIN call : Mkdtemp(i)
  \/ \E i \in DOMAIN call : Which(i)
  \/ \E i \in DOMAIN call : Popen(i)
  \/ \E i \in DOMAIN call : Monitor(i)
  \/ \E i \in DOMAIN call : ChildExit(i, ConcCodes, ConcDocs, ConcTexts, {CeilingKb \div 2})
  \/ \E i \in DOMAIN call : Tick(i)
  \/ \E i \in DOMAIN call : CommunicateReturn(i)
  \/ \E i \in DOMAIN call : CommunicateTimeout(i)
  \/ \E i \in DOMAIN call : Sample(i, {}, {"NoSuchProcess"})
  \/ \E i \in DOMAIN call : Classify(i)
  \/ \E i \in DOMAIN call : Terminate(i)
  \/ \E i \in DOMAIN call : WaitReturn(i)
  \/ \E i \in DOMAIN call : WaitTimeout(i)
  \/ \E i \in DOMAIN call : Kill(i)
  \/ \E i \in DOMAIN call : Finally(i)
SpecEnv == InitEnv /\ [][NextEnv]_vars

\* one compute call on either platform, from the import of the module on
InitPlatform ==
  /\ \E n \in OsNames : call = [i \in {1} |-> [IdleCall EXCEPT !.pc = "import", !.osName = n]]
  /\ fs = [d \in DirNames |-> 0]
  /\ proc = IdleProc
  /\ run = IdleRun
NextPlatform ==
  \/ \E i \in DOMAIN call : ImportModule(i)
  \/ \E i \in DOMAIN call : Begin(i, Adapters, {TRUE}, {PlainEnv})
  \/ \E i \in DOMAIN call : Mkdtemp(i)
  \/ \E i \in DOMAIN call : Which(i)
  \/ \E i \in DOMAIN call : Popen(i)
  \/ \E i \in DOMAIN call : Monitor(i)
  \/ \E i \in DOMAIN call : ChildExit(i, ConcCodes, ConcDocs, ConcTexts, {CeilingKb \div 2})
  \/ \E i \in DOMAIN call : Tick(i)
  \/ \E i \in DOMAIN call : CommunicateReturn(i)
  \/ \E i \in DOMAIN call : CommunicateTimeout(i)
  \/ \E i \in DOMAIN call : Sample(i, {}, {"NoSuchProcess"})
  \/ \E i \in DOMAIN call : Classify(i)
  \/ \E i \in DOMAIN call : Terminate(i)
  \/ \E i \in DOMAIN call : WaitReturn(i)
  \/ \E i \in DOMAIN call : WaitTimeout(i)
  \/ \E i \in DOMAIN call : Kill(i)
  \/ \E i \in DOMAIN call : Finally(i)
SpecPlatform == InitPlatform /\ [][NextPlatform]_vars

\* a compute call of SubprocessAdapter in subprocess mode (call 1) beside a
\* compute call of JSONProtocolAdapter (call 2), with the same limits, whose
\* children answer well or badly, fail, use too much memory or hang
TwinCalls == {1, 2}
TwinDocs == {DocSuccess, DocList}
InitTwins == InitFor(TwinCalls)
NextTwins ==
  \/ \E i \in {1} : Begin(i, {"SubprocessAdapter"}, {TRUE}, {PlainEnv})
  \/ \E i \in {2} : Begin(i, {"JSONProtocolAdapter"}, {TRUE}, {PlainEnv})
  \/ \E i \in DOMAIN call : Mkdtemp(i)
  \/ \E i \in DOMAIN call : Which(i)
  \/ \E i \in DOMAIN call : Popen(i)
  \/ \E i \in DOMAIN call : Monitor(i)
  \/ \E i \in DOMAIN call : ChildExit(i, ConcCodes, TwinDocs, ConcTexts, {CeilingKb \div 2})
  \/ \E i \in DOMAIN call : Tick(i)
  \/ \E i \in DOMAIN call : CommunicateReturn(i)
  \/ \E i \in DOMAIN call : CommunicateTimeout(i)
  \/ \E i \in DOMAIN call : Sample(i, {CeilingKb * 1024 * 2}, {"NoSuchProcess"})
  \/ \E i \in DOMAIN call : Classify(i)
  \/ \E i \in DOMAIN call : Terminate(i)
  \/ \E i \in DOMAIN call : WaitReturn(i)
  \/ \E i \in DOMAIN call : WaitTimeout(i)
  \/ \E i \in DOMAIN call : Kill(i)
  \/ \E i \in DOMAIN call : Finally(i)
SpecTwins == InitTwins /\ [][NextTwins]_vars

\* one compute call whose child may start a process of its own
InitTree == InitFor({1})
NextTree ==
  \/ \E i \in DOMAIN call : Begin(i, Adapters, {TRUE}, {PlainEnv})
  \/ \E i \in DOMAIN call : Mkdtemp(i)
  \/ \E i \in DOMAIN call : Which(i)
  \/ \E i \in DOMAIN call : Popen(i)
  \/ \E i \in DOMAIN call : Monitor(i)
  \/ \E i \in DOMAIN call : SpawnGrandchild(i)
  \/ \E i \in DOMAIN call : GrandchildExit(i)
  \/ \E i \in DOMAIN call : ChildExit(i, ConcCodes, ConcDocs, ConcTexts, {CeilingKb \div 2})
  \/ \E i \in DOMAIN call : Tick(i)
  \/ \E i \in DOMAIN call : CommunicateReturn(i)
  \/ \E i \in DOMAIN call : CommunicateTimeout(i)
  \/ \E i \in DOMAIN call : Sample(i, {}, {"NoSuchProcess"})
  \/ \E i \in DOMAIN call : Classify(i)
  \/ \E i \in DOMAIN call : Terminate(i)
  \/ \E i \in DOMAIN call : WaitReturn(i)
  \/ \E i \in DOMAIN call : WaitTimeout(i)
  \/ \E i \in DOMAIN call : Kill(i)
  \/ \E i \in DOMAIN call : Finally(i)
SpecTree == InitTree /\ [][NextTree]_vars

(***************************************************************************)
(* SwhidHarness (test_harness/harness.py): one payload of run_tests.       *)
(***************************************************************************)
\* swh:1 and swh:2 as runners return them
SwhidA == <<"s", "w", "h", ":", "1">>
SwhidB == <<"s", "w", "h", ":", "2">>
\* the documents a JSON-protocol implementation answers with here
HarnessDocs == {DocSuccess, DocNoSwhid, DocIntSwhid, DocList}
\* what the import of a runner and its compute_swhid(payload_path) can do:
\* return a string (the runners of this repository return "swh:..."), or
\* raise; and what a compute of the adapters does on the documents above
\* and on a failing child
RunnerOutcomes ==
  {Returned(JStr(SwhidA)), Returned(JStr(SwhidB)), Returned(JStr(<<>>)),
   Raised("RuntimeError", "Python implementation failed"),
   Raised("ImportError", "")}
  \cup {ClassifyOutcome("JSONProtocolAdapter", 0, 0, d, <<>>) : d \in HarnessDocs}
  \cup {ClassifyOutcome("JSONProtocolAdapter", 0, 1, <<>>, ErrBoom)}
\* payload.get("expected_swhid")
ExpectedSwhids == {JNone, JStr(<<>>), JStr(SwhidA)}

\* the exceptions that "except Exception" does not catch
NotExceptions == {"SystemExit", "KeyboardInterrupt", "GeneratorExit"}

TestResult(implementation, swhid, error, success) ==
  [implementation |-> implementation, swhid |-> swhid, error |-> error,
   success |-> success]

\* _run_single_test(implementation, ...) when the runner does o: the future
\* holds a TestResult, or the exception that got past "except Exception"
RunSingleTestFuture(implementation, o) ==
  IF o.status = "returned"
    THEN [pc |-> "finished", outcome |-> o, escaped |-> FALSE,
          result |-> TestResult(implementation, o.value, NoneText, TRUE)]
  ELSE IF o.exc \notin NotExceptions
    THEN [pc |-> "finished", outcome |-> o, escaped |-> FALSE,
          result |-> TestResult(implementation, JNone, SomeText(o.head), FALSE)]
  ELSE [pc |-> "finished", outcome |-> o, escaped |-> TRUE, result |-> <<>>]

\* [r.swhid for r in results.values() if r.swhid]
RECURSIVE TruthySwhids(_)
TruthySwhids(results) ==
  IF results = <<>> THEN <<>>
  ELSE IF Truthy(Head(results).swhid)
    THEN <<Head(results).swhid>> \o TruthySwhids(Tail(results))
  ELSE TruthySwhids(Tail(results))

\* the same comparison without the check against expected_swhid
CompareResultsNoExpected(results, expected_swhid) ==
  LET all_success == \A k \in 1..Len(results) : results[k].success
      swhids == TruthySwhids(results)
      all_match == IF swhids # <<>>
                     THEN Cardinality({swhids[k] : k \in 1..Len(swhids)}) = 1
                     ELSE FALSE
  IN IF ~all_success
       THEN [results |-> results, all_match |-> FALSE, expected_swhid |-> expected_swhid]
       ELSE [results |-> results, all_match |-> all_match,
             expected_swhid |-> expected_swhid]

\* _compare_results(payload_name, payload_path, results, expected_swhid)
CompareResults(results, expected_swhid) ==
  LET all_success == \A k \in 1..Len(results) : results[k].success
      swhids == TruthySwhids(results)
      all_match == IF swhids # <<>>
                     THEN Cardinality({swhids[k] : k \in 1..Len(swhids)}) = 1
                     ELSE FALSE
  IN IF ~all_success
       THEN [results |-> results, all_match |-> FALSE, expected_swhid |-> expected_swhid]
       ELSE [results |-> results,
             all_match |-> IF Truthy(expected_swhid) /\ all_match
                             THEN swhids[1] = expected_swhid ELSE all_match,
             expected_swhid |-> expected_swhid]

\* a worker thread of the pool runs _run_single_test for one implementation
RunSingleTest(p) ==
  /\ run.test[p].pc = "submitted"
  /\ \E o \in RunnerOutcomes :
       run' = [run EXCEPT !.test[p] = RunSingleTestFuture(p, o)]
  /\ UNCHANGED <<call, fs, proc>>

\* as_completed yields the future: results[impl] = future.result(), or the
\* exception of the future is logged
Collect(p) ==
  /\ run.test[p].pc = "finished"
  /\ run' = [run EXCEPT !.test[p].pc = "collected",
                         !.keys = IF run.test[p].escaped THEN @ ELSE Append(@, p),
                         !.results = IF run.test[p].escaped THEN @
                                     ELSE Append(@, run.test[p].result)]
  /\ UNCHANGED <<call, fs, proc>>

\* the same comparison made as soon as one future is done
CompareEarly ==
  /\ ~run.compared
  /\ \E p \in run.implementations : run.test[p].pc = "collected"
  /\ run' = [run EXCEPT !.compared = TRUE,
                         !.comparison = CompareResults(run.results, run.expected_swhid)]
  /\ UNCHANGED <<call, fs, proc>>

\* comparison = self._compare_results(payload_name, payload_path, results,
\* expected_swhid), once every future is done
Compare ==
  /\ ~run.compared
  /\ \A p \in run.implementations : run.test[p].pc = "collected"
  /\ run' = [run EXCEPT !.compared = TRUE,
                         !.comparison = CompareResults(run.results, run.expected_swhid)]
  /\ UNCHANGED <<call, fs, proc>>

\* the futures submitted for the implementations I and the payload's expected e
StartRun(I, e) ==
  [IdleRun EXCEPT !.implementations = I, !.expected_swhid = e,
                  !.test = [p \in Impls |->
                              IF p \in I THEN [NoTest EXCEPT !.pc = "submitted"]
                              ELSE NoTest]]

InitHarness ==
  /\ call = [i \in {} |-> IdleCall]
  /\ fs = [d \in DirNames |-> 0]
  /\ proc = IdleProc
  /\ run \in {StartRun(I, e) : I \in SUBSET Impls, e \in ExpectedSwhids}
NextHarness ==
  \/ \E p \in Impls : RunSingleTest(p)
  \/ \E p \in Impls : Collect(p)
  \/ Compare
SpecHarness == InitHarness /\ [][NextHarness]_vars

\* two concurrent compute calls of SubprocessAdapter, call 1 with
\* use_subprocess true and call 2 with use_subprocess false
ModeCalls == {1, 2}
InitModes == InitFor(ModeCalls)
NextModes ==
  \/ \E i \in {1} : Begin(i, {"SubprocessAdapter"}, {TRUE}, {PlainEnv})
  \/ \E i \in DOMAIN call : Mkdtemp(i)
  \/ \E i \in DOMAIN call : Which(i)
  \/ \E i \in DOMAIN call : Popen(i)
  \/ \E i \in DOMAIN call : Monitor(i)
  \/ \E i \in DOMAIN call : ChildExit(i, ConcCodes, ConcDocs, ConcTexts, {CeilingKb \div 2})
  \/ \E i \in DOMAIN call : CpuLimit(i)
  \/ \E i \in DOMAIN call : Tick(i)
  \/ \E i \in DOMAIN call : CommunicateReturn(i)
  \/ \E i \in DOMAIN call : CommunicateTimeout(i)
  \/ \E i \in DOMAIN call : Sample(i, {CeilingKb * 1024 * 2}, {"NoSuchProcess"})
  \/ \E i \in DOMAIN call : Classify(i)
  \/ \E i \in DOMAIN call : Terminate(i)
  \/ \E i \in DOMAIN call : WaitReturn(i)
  \/ \E i \in DOMAIN call : WaitTimeout(i)
  \/ \E i \in DOMAIN call : Kill(i)
  \/ \E i \in DOMAIN call : Finally(i)
  \/ \E i \in {2} : BeginMonitoring(i)
  \/ \E i \in DOMAIN call : SetRlimit(i)
  \/ \E i \in DOMAIN call : StartMetrics(i)
  \/ \E i \in DOMAIN call : RunWithTimeout(i)
  \/ \E i \in DOMAIN call : CheckLimits(i)
SpecModes == InitModes /\ [][NextModes]_vars

(***************************************************************************)
(* Vocabulary of the properties                                            *)
(***************************************************************************)
\* the failure kind an outcome stands for: every failure of the adapters is
\* a RuntimeError told apart by the start of its message.  The in-process
\* mode wraps its failures in "Subprocess execution failed: ..."; they are
\* read by the message they wrap, an exception of the implementation as an
\* implementation failure.
KindOf(o) ==
  CASE o.status = "none" -> "None"
    [] o.status = "returned" -> "Success"
    [] o.exc = "RuntimeError" /\ o.head = HeadTimeout -> "TimedOut"
    [] o.exc = "RuntimeError" /\ o.head = HeadRss -> "ResourceExceeded"
    [] o.exc = "RuntimeError" /\ o.head \in {HeadExit(a) : a \in Adapters} -> "ImplementationFailure"
    [] o.exc = "RuntimeError" /\ o.head \in {HeadJson, HeadNoSwhid} -> "ProtocolError"
    [] o.exc = "RuntimeError" /\ o.head = HeadImplError -> "ImplementationError"
    [] o.exc = "RuntimeError" /\ o.head = HeadSubprocessFailed
         /\ o.detail \in {HeadRss, HeadCpu} -> "ResourceExceeded"
    [] o.exc = "RuntimeError" /\ o.head = HeadSubprocessFailed -> "ImplementationFailure"
    [] OTHER -> "Uncategorised"

Taxonomy ==
  {"Success", "TimedOut", "ResourceExceeded", "ImplementationFailure",
   "ProtocolError", "ImplementationError"}

Ended(i) == call[i].pc = "done"
\* communicate() returned: the child exited before the timeout
ExitedInTime(i) == call[i].sampled # "none"
\* the memory sample, when there is one, is within max_rss_mb
SampleWithinCeiling(i) ==
  call[i].sampled = "rss" => call[i].rss <= MaxRssMb * 1024 * 1024

\* swh:1
Swh1 == <<"s", "w", "h", ":", "1">>
\* swh:2
Swh2 == <<"s", "w", "h", ":", "2">>
\* the well-formed success responses among the texts, and their swhid
SuccessDocs == {DocSuccess, DocSuccessSpaced, DocSuccessMetrics}
SwhidOf(doc) == IF doc = DocSuccessMetrics THEN Swh2 ELSE Swh1

(***************************************************************************)
(* C1: a child that exits 0 before the timeout, whose memory sample is     *)
(* within the ceiling and whose stdout is a well-formed success response   *)
(* makes compute return exactly the swhid of that response.                *)
(***************************************************************************)
C1_SuccessReturnsSwhid ==
  \A i \in DOMAIN call :
    (/\ Ended(i) /\ ExitedInTime(i)
     /\ call[i].returncode = 0
     /\ SampleWithinCeiling(i)
     /\ call[i].stdout \in SuccessDocs)
    => /\ call[i].outcome.status = "returned"
       /\ call[i].outcome.value = JStr(SwhidOf(call[i].stdout))

C1_Witness ==
  \E i \in DOMAIN call :
    /\ Ended(i) /\ call[i].returncode = 0
    /\ call[i].stdout = DocSuccessSpaced
    /\ call[i].sampled = "rss" /\ call[i].rss = MaxRssMb * 1024 * 1024
    /\ call[i].outcome.status = "returned"

(***************************************************************************)
(* C2: once communicate() has timed out, the outcome of the call is the    *)
(* timeout failure and never a success, whatever the child does afterwards.*)
(***************************************************************************)
C2_TimeoutPathTimesOut ==
  \A i \in DOMAIN call :
    call[i].expired =>
      /\ KindOf(call[i].outcome) \in {"None", "TimedOut"}
      /\ call[i].pc \in {"finally", "done"} => KindOf(call[i].outcome) = "TimedOut"

\* the child exits 0 with a success response after the grace period expired
\* and before the kill
C2_Witness ==
  \E i \in DOMAIN call :
    /\ Ended(i) /\ call[i].expired /\ call[i].killSent
    /\ call[i].exitCode = 0 /\ call[i].out = DocSuccess
    /\ KindOf(call[i].outcome) = "TimedOut"

(***************************************************************************)
(* C3: a call whose child did not exit within the timeout fails at most    *)
(* timeout + 5 seconds after the wait began.                               *)
(***************************************************************************)
C3_TimeoutWithinGrace ==
  \A i \in DOMAIN call :
    call[i].expired =>
      /\ call[i].clock + call[i].grace <= TimeoutSeconds + 5
      /\ Ended(i) => KindOf(call[i].outcome) = "TimedOut"

\* the child ignores the termination signal for the whole grace period
C3_Witness ==
  \E i \in DOMAIN call :
    /\ Ended(i) /\ call[i].expired /\ call[i].killSent
    /\ call[i].clock + call[i].grace = TimeoutSeconds + 5
    /\ KindOf(call[i].outcome) = "TimedOut"

(***************************************************************************)
(* C4: when a call ends after a normal exit, after a timeout with graceful *)
(* exit or after a timeout with forceful kill, its child has been waited   *)
(* on.                                                                     *)
(***************************************************************************)
C4_ChildReapedAtEnd ==
  \A i \in DOMAIN call :
    (Ended(i) /\ (ExitedInTime(i) \/ (call[i].expired /\ call[i].termSent)))
    => call[i].child = "reaped"

(***************************************************************************)
(* C5: a child whose peak resident size exceeds the ceiling makes compute  *)
(* fail with the RSS failure, even if it exited 0 with a success response. *)
(***************************************************************************)
C5_PeakOverCeilingFails ==
  \A i \in DOMAIN call :
    (/\ Ended(i) /\ ExitedInTime(i)
     /\ call[i].peakKb > MaxRssMb * 1024
     /\ call[i].returncode = 0
     /\ call[i].stdout \in SuccessDocs)
    => KindOf(call[i].outcome) = "ResourceExceeded"

(***************************************************************************)
(* C6: a non-zero exit code within the limits fails with the exit failure, *)
(* stdout is not parsed, and the message is stderr if non-empty, else      *)
(* stdout if non-empty, else the placeholder.                              *)
(***************************************************************************)
NonZeroExitInLimits(i) ==
  /\ Ended(i) /\ ExitedInTime(i)
  /\ call[i].returncode # 0
  /\ SampleWithinCeiling(i)

C6_MessageIsStderrElseStdout ==
  \A i \in DOMAIN call :
    NonZeroExitInLimits(i) =>
      /\ KindOf(call[i].outcome) = "ImplementationFailure"
      /\ ~call[i].outcome.parsed
      /\ ExitMessageText(call[i].outcome) =
           IF call[i].stderr # <<>> THEN call[i].stderr
           ELSE IF call[i].stdout # <<>> THEN call[i].stdout
           ELSE TextUnknownError

Blank(s) == \A k \in 1..Len(s) : s[k] \in Ws
\* b is s without its leading and trailing whitespace
IsStripOf(b, s) ==
  IF b = <<>> THEN Blank(s)
  ELSE /\ b[1] \notin Ws /\ b[Len(b)] \notin Ws
       /\ \E a \in 0..(Len(s) - Len(b)) :
            /\ SubSeq(s, a + 1, a + Len(b)) = b
            /\ \A k \in 1..Len(s) : (k <= a \/ k > a + Len(b)) => s[k] \in Ws

(* C6, amended: the message is the adapter's prefix with the exit code,    *)
(* followed by stderr without surrounding whitespace if that is non-empty, *)
(* else stdout without surrounding whitespace if that is non-empty, else   *)
(* "Unknown error"; stdout is not parsed.                                  *)
C6_MessageIsPrefixedStrippedText ==
  \A i \in DOMAIN call :
    NonZeroExitInLimits(i) =>
      LET o == call[i].outcome
      IN /\ KindOf(o) = "ImplementationFailure"
         /\ ~o.parsed
         /\ o.head = (IF call[i].adapter = "SubprocessAdapter"
                        THEN "Implementation failed (exit" ELSE "Process failed (exit")
         /\ o.n = call[i].returncode
         /\ \/ ~Blank(call[i].stderr) /\ IsStripOf(o.body, call[i].stderr)
            \/ /\ Blank(call[i].stderr) /\ ~Blank(call[i].stdout)
               /\ IsStripOf(o.body, call[i].stdout)
            \/ /\ Blank(call[i].stderr) /\ Blank(call[i].stdout)
               /\ o.body = TextUnknownError

\* stderr is blank, stdout is a success response with whitespace around it
C6_Witness ==
  \E i \in DOMAIN call :
    /\ NonZeroExitInLimits(i)
    /\ call[i].stderr = ErrBlank /\ call[i].stdout = DocSuccessSpaced
    /\ call[i].outcome.body = SubSeq(DocSuccessSpaced, 2, Len(DocSuccessSpaced) - 1)
    /\ KindOf(call[i].outcome) = "ImplementationFailure"

(***************************************************************************)
(* C7: exit 0 within the limits with a stdout the JSON decoder rejects     *)
(* fails with the protocol failure, whose message carries a prefix of      *)
(* stdout of at most 200 characters, all of stdout when it is shorter.     *)
(***************************************************************************)
UndecodableDocs == {DocNotJson, DocTrailing, DocBlank, DocLong, <<>>}

C8_ClosedTaxonomy ==
  \A i \in DOMAIN call :
    (Ended(i) /\ call[i].mk = 1) => KindOf(call[i].outcome) \in Taxonomy

(***************************************************************************)
(* C9: the working directory is created once, before the child is spawned, *)
(* and removed exactly once on every way out of the call; after the call   *)
(* its directory is gone unless the deletion failed.                       *)
(***************************************************************************)
C9_WorkDirRemovedOnce ==
  \A i \in DOMAIN call :
    /\ call[i].mk <= 1
    /\ call[i].rm <= call[i].mk
    /\ call[i].spawned > 0 => call[i].mk = 1
    /\ call[i].pc \in {"which", "popen", "monitor", "communicate", "sample",
                       "classify", "terminate", "gracewait", "kill", "finally"}
         => (call[i].mk = 1 /\ call[i].rm = 0 /\ fs[call[i].workDir] = i)
    /\ Ended(i) => call[i].rm = call[i].mk
    /\ (Ended(i) /\ call[i].mk = 1 /\ ~call[i].rmFailed) => fs[call[i].workDir] # i

\* Popen raised after the directory was created
C9_Witness ==
  \E i \in DOMAIN call :
    /\ Ended(i) /\ call[i].outcome.exc = "OSError"
    /\ call[i].mk = 1 /\ call[i].rm = 1 /\ ~call[i].rmFailed
    /\ fs[call[i].workDir] = 0

(***************************************************************************)
(* C10: concurrently active calls have distinct working directories, and   *)
(* the directory of an active call exists until that call removes it.      *)
(***************************************************************************)
Active(i) == call[i].pc \notin {"idle", "mkdtemp", "done"}

C10_DistinctWorkDirs ==
  /\ \A i, j \in DOMAIN call :
       (i # j /\ Active(i) /\ Active(j)) => call[i].workDir # call[j].workDir
  /\ \A i \in DOMAIN call : Active(i) => fs[call[i].workDir] = i

\* one call has removed its directory while another is active
C10_Witness ==
  \E i, j \in DOMAIN call :
    /\ i # j /\ Active(i) /\ Ended(j)
    /\ call[j].rm = 1 /\ ~call[j].rmFailed
    /\ fs[call[j].workDir] = 0 /\ fs[call[i].workDir] = i

(***************************************************************************)
(* C11: with clean_env = true the environment handed to the child holds    *)
(* only PATH and the project-root marker, whatever the environment of the  *)
(* calling process holds: PATH has the caller's value, the marker is the   *)
(* project root, and no other variable of the caller is in it.             *)
(***************************************************************************)
C11_CleanEnvOnlyWhitelist ==
  \A i \in DOMAIN call :
    (call[i].cleanEnv /\ call[i].spawned > 0) =>
      /\ DOMAIN call[i].childEnv = {"PATH", MarkerVar}
      /\ call[i].childEnv[MarkerVar] = ProjectRoot
      /\ "PATH" \in DOMAIN call[i].environ =>
           call[i].childEnv["PATH"] = call[i].environ["PATH"]
      /\ \A v \in DOMAIN call[i].environ \ {"PATH", MarkerVar} :
           v \notin DOMAIN call[i].childEnv

\* the caller's environment holds a token and its own value of the marker
C11_Witness ==
  \E i \in DOMAIN call :
    /\ call[i].cleanEnv /\ call[i].spawned > 0 /\ Ended(i)
    /\ DOMAIN call[i].environ = EnvNames
    /\ DOMAIN call[i].childEnv = {"PATH", MarkerVar}

\* the child exited 0 before the timeout and the sample is within the ceiling
ExitZeroInLimits(i) ==
  /\ Ended(i) /\ ExitedInTime(i)
  /\ call[i].returncode = 0
  /\ SampleWithinCeiling(i)

(***************************************************************************)
(* C12: a response that is JSON but lacks the ok field, or has ok true and *)
(* lacks swhid, fails with the protocol failure and carries a prefix of    *)
(* the raw output of at most 200 characters.                               *)
(***************************************************************************)
SchemaViolationDocs == {DocNoOk, DocNoSwhid}

C12_SchemaViolationIsProtocolError ==
  \A i \in DOMAIN call :
    (ExitZeroInLimits(i) /\ call[i].stdout \in SchemaViolationDocs) =>
      /\ KindOf(call[i].outcome) = "ProtocolError"
      /\ call[i].outcome.body = Take(call[i].stdout, 200)

(***************************************************************************)
(* C13: exit 0 within the limits with a well-formed failure response fails *)
(* with the implementation error that carries exactly the code and the     *)
(* message of the response.                                                *)
(***************************************************************************)
FailureDocs == {DocFailure, DocFailureSpaced}
\* E1, E2, bad, no
FailureCodeOf(doc) == IF doc = DocFailure THEN <<"E", "1">> ELSE <<"E", "2">>
FailureMessageOf(doc) == IF doc = DocFailure THEN <<"b", "a", "d">> ELSE <<"n", "o">>

C13_FailureCarriesCodeAndMessage ==
  \A i \in DOMAIN call :
    (ExitZeroInLimits(i) /\ call[i].stdout \in FailureDocs) =>
      /\ KindOf(call[i].outcome) = "ImplementationError"
      /\ call[i].outcome.errCode = JStr(FailureCodeOf(call[i].stdout))
      /\ call[i].outcome.errMsg = JStr(FailureMessageOf(call[i].stdout))

\* the error object lists the message before the code
C13_Witness ==
  \E i \in DOMAIN call :
    /\ ExitZeroInLimits(i) /\ call[i].stdout = DocFailureSpaced
    /\ call[i].outcome.head = HeadImplError
    /\ call[i].outcome.errCode = JStr(<<"E", "2">>)

(***************************************************************************)
(* C14: when stdout is one well-formed response followed by further bytes, *)
(* the outcome is the one of the response alone: a success response        *)
(* followed by text returns the swhid of the response.                     *)
(***************************************************************************)
\* the response document that a text starts with
FirstDocumentOf(stdout) == IF stdout = DocTrailing THEN DocSuccess ELSE stdout

C14_TrailingBytesIgnored ==
  \A i \in DOMAIN call :
    (ExitZeroInLimits(i) /\ call[i].stdout = DocTrailing) =>
      /\ call[i].outcome = ParseResponse(FirstDocumentOf(call[i].stdout))
      /\ call[i].outcome.status = "returned"
      /\ call[i].outcome.value = JStr(Swh1)

(***************************************************************************)
(* C20: the outcome follows a fixed precedence.  A timeout gives the       *)
(* timeout failure whatever else holds; else a measured RSS over the       *)
(* ceiling gives the RSS failure whatever the exit code and stdout; else a *)
(* non-zero exit code gives the exit failure whatever stdout holds, and    *)
(* stdout is not parsed; only otherwise is stdout parsed.                  *)
(***************************************************************************)
MeasuredOverCeiling(i) ==
  call[i].sampled = "rss" /\ call[i].rss \div 1024 > MaxRssMb * 1024

C20_ClassificationPrecedence ==
  \A i \in DOMAIN call :
    (Ended(i) /\ (ExitedInTime(i) \/ call[i].expired)) =>
      LET k == KindOf(call[i].outcome)
      IN /\ call[i].expired => k = "TimedOut"
         /\ (~call[i].expired /\ MeasuredOverCeiling(i)) =>
              (k = "ResourceExceeded" /\ ~call[i].outcome.parsed)
         /\ (~call[i].expired /\ ~MeasuredOverCeiling(i) /\ call[i].returncode # 0) =>
              (k = "ImplementationFailure" /\ ~call[i].outcome.parsed)
         /\ (~call[i].expired /\ ~MeasuredOverCeiling(i) /\ call[i].returncode = 0) =>
              (call[i].outcome.parsed /\ call[i].outcome = ParseResponse(call[i].stdout))

\* RSS over the ceiling together with a non-zero exit and a success response
C20_Witness ==
  \E i \in DOMAIN call :
    /\ Ended(i) /\ MeasuredOverCeiling(i)
    /\ call[i].returncode # 0 /\ call[i].stdout = DocSuccess
    /\ KindOf(call[i].outcome) = "ResourceExceeded"

(***************************************************************************)
(* C15: a call whose implementation went over the CPU-time ceiling fails   *)
(* with the resource failure and with no other kind, in subprocess mode    *)
(* (the kernel ends the child at the limit) and in in-process mode.        *)
(***************************************************************************)
\* subprocess mode: the child was ended at its CPU limit before the timeout
\* and the memory sample is within the ceiling; in-process mode: the
\* implementation returned, the CPU time is over the ceiling and the
\* resident size is not
CpuOverCeiling(i) ==
  \/ /\ call[i].useSubprocess /\ call[i].cpuExceeded
     /\ ExitedInTime(i) /\ ~MeasuredOverCeiling(i)
  \/ /\ ~call[i].useSubprocess /\ call[i].ran = "returned"
     /\ call[i].cpuMs > MaxCpuTime * 1000
     /\ call[i].maxRssKb <= MaxRssMb * 1024

C15_CpuOverCeilingIsResourceExceeded ==
  \A i \in DOMAIN call :
    (Ended(i) /\ CpuOverCeiling(i)) => KindOf(call[i].outcome) = "ResourceExceeded"

(***************************************************************************)
(* C16: the two modes of SubprocessAdapter give the same kind of outcome   *)
(* for the same behaviour of the implementation: a result returned, a      *)
(* timeout, RSS over the ceiling, CPU over the ceiling, a failure of the   *)
(* implementation.                                                         *)
(***************************************************************************)
\* what the implementation did in an ended call, when it did one thing only
Behaviour(i) ==
  IF call[i].useSubprocess
    THEN CASE call[i].expired -> "timeout"
           [] ExitedInTime(i) /\ call[i].cpuExceeded /\ ~MeasuredOverCeiling(i) -> "cpu"
           [] ExitedInTime(i) /\ ~call[i].cpuExceeded /\ MeasuredOverCeiling(i)
                /\ call[i].returncode = 0 -> "rss"
           [] ExitedInTime(i) /\ ~call[i].cpuExceeded /\ ~MeasuredOverCeiling(i)
                /\ call[i].returncode # 0 -> "failure"
           [] ExitedInTime(i) /\ ~MeasuredOverCeiling(i) /\ call[i].returncode = 0
                /\ call[i].stdout \in SuccessDocs -> "result"
           [] OTHER -> "other"
    ELSE CASE call[i].ran = "TimeoutExpired" -> "timeout"
           [] call[i].ran = "raised" -> "failure"
           [] call[i].ran = "returned" /\ call[i].maxRssKb > MaxRssMb * 1024
                /\ call[i].cpuMs <= MaxCpuTime * 1000 -> "rss"
           [] call[i].ran = "returned" /\ call[i].maxRssKb <= MaxRssMb * 1024
                /\ call[i].cpuMs > MaxCpuTime * 1000 -> "cpu"
           [] call[i].ran = "returned" /\ call[i].maxRssKb <= MaxRssMb * 1024
                /\ call[i].cpuMs <= MaxCpuTime * 1000 -> "result"
           [] OTHER -> "other"

C16_ModesClassifyAlike ==
  \A i, j \in DOMAIN call :
    (/\ Ended(i) /\ Ended(j)
     /\ call[i].useSubprocess /\ ~call[j].useSubprocess
     /\ Behaviour(i) = Behaviour(j) /\ Behaviour(i) # "other")
    => KindOf(call[i].outcome) = KindOf(call[j].outcome)

AllSucceeded(results) == \A k \in 1..Len(results) : results[k].success
AllIdentical(results) ==
  \A k, l \in 1..Len(results) : results[k].swhid = results[l].swhid

C19_AllMatchIffAgreeing ==
  run.compared =>
    /\ run.comparison.all_match <=>
         /\ AllSucceeded(run.results)
         /\ AllIdentical(run.results)
         /\ run.expected_swhid # JNone =>
              \A k \in 1..Len(run.results) : run.results[k].swhid = run.expected_swhid
    /\ run.comparison.results = run.results
    /\ run.comparison.expected_swhid = run.expected_swhid

(* C19, amended: all_match is true exactly when every result succeeded,    *)
(* at least one result has a non-empty SWHID, the non-empty SWHIDs are all *)
(* identical and, when a non-empty expected SWHID is supplied, they equal  *)
(* it; the comparison carries the results and the expected value it was    *)
(* given.                                                                  *)
NonEmptySwhids(results) ==
  {results[k].swhid : k \in {l \in 1..Len(results) : Truthy(results[l].swhid)}}

C19_AllMatchIffNonEmptyAgreeing ==
  run.compared =>
    /\ run.comparison.all_match <=>
         /\ AllSucceeded(run.results)
         /\ NonEmptySwhids(run.results) # {}
         /\ \A a, b \in NonEmptySwhids(run.results) : a = b
         /\ Truthy(run.expected_swhid) =>
              \A a \in NonEmptySwhids(run.results) : a = run.expected_swhid
    /\ run.comparison.results = run.results
    /\ run.comparison.expected_swhid = run.expected_swhid

\* three implementations agree on a SWHID that is not the expected one
C19_Witness ==
  /\ run.compared /\ Len(run.results) = 3
  /\ AllSucceeded(run.results)
  /\ \A k \in 1..3 : run.results[k].swhid = JStr(SwhidB)
  /\ run.expected_swhid = JStr(SwhidA)
  /\ ~run.comparison.all_match

(***************************************************************************)
(* C18: concurrent calls share no mutable state: a step of one call        *)
(* changes nothing of another call, touches no directory but its own, and  *)
(* leaves the limits of the calling process as they were.                  *)
(***************************************************************************)
C18_CallsDoNotInterfere ==
  [][\A i \in DOMAIN call :
       call[i]' # call[i] =>
         /\ \A j \in DOMAIN call \ {i} : call[j]' = call[j]
         /\ \A d \in DirNames : fs[d]' # fs[d] => (fs[d] \in {0, i} /\ fs[d]' \in {0, i})
         /\ proc' = proc]_vars

(***************************************************************************)
(* C21: termination escalates in order.  The forceful kill is sent only    *)
(* after communicate() timed out, after the graceful signal was sent, and  *)
(* after the child stayed alive for the whole grace period of 5 seconds;   *)
(* it is never sent when the child exited within the grace period or when  *)
(* the graceful signal could not be sent.                                  *)
(***************************************************************************)
\* the child exited before the grace period was over: the clock of the
\* grace wait only advances while the child runs
ExitedWithinGrace(i) ==
  call[i].termSent /\ call[i].child # "running" /\ call[i].grace < GraceSeconds

C21_EscalationOrdered ==
  \A i \in DOMAIN call :
    /\ call[i].termSent => call[i].expired
    /\ call[i].pc = "kill" \/ call[i].killSent =>
         /\ call[i].expired /\ call[i].termSent
         /\ call[i].grace = GraceSeconds
    /\ ExitedWithinGrace(i) => ~call[i].killSent /\ call[i].pc # "kill"
    /\ (call[i].expired /\ ~call[i].termSent) => ~call[i].killSent /\ call[i].pc # "kill"

\* one call was killed after the full grace period
C21_Witness ==
  \E i \in DOMAIN call :
    /\ Ended(i) /\ call[i].expired /\ call[i].termSent /\ call[i].killSent
    /\ call[i].grace = GraceSeconds /\ call[i].exitCode = -9

(***************************************************************************)
(* C22: after a call that timed out has returned, no process started by    *)
(* its child is still running: termination reaches the grandchildren.      *)
(***************************************************************************)
C22_NoDescendantSurvivesTimeout ==
  \A i \in DOMAIN call :
    (Ended(i) /\ call[i].expired) => call[i].grandchild # "running"

(***************************************************************************)
(* C23: a response is never taken as partially valid.  A stdout that is    *)
(* JSON but not a well-formed response (not an object; ok not a boolean;   *)
(* ok true with a swhid that is not a non-empty string; ok false with an   *)
(* error that is not an object) fails with the protocol failure, and no    *)
(* call returns a value that is not a non-empty string.                    *)
(***************************************************************************)
MalformedDocs ==
  {DocList, DocNull, DocNaN, DocEmptySwhid, DocIntSwhid, DocOkNumber, DocErrorText}

C23_NeverPartiallyValid ==
  \A i \in DOMAIN call :
    /\ (ExitZeroInLimits(i) /\ call[i].stdout \in MalformedDocs) =>
         KindOf(call[i].outcome) = "ProtocolError"
    /\ (Ended(i) /\ call[i].useSubprocess /\ call[i].outcome.status = "returned") =>
         (call[i].outcome.value.t = "str" /\ call[i].outcome.value.s # <<>>)

(***************************************************************************)
(* C24: a failure of a best-effort step does not change the outcome.       *)
(* (i) When the memory sample is unavailable (NoSuchProcess, AccessDenied) *)
(* the call is classified by exit code and response alone, never as an RSS *)
(* failure.  (ii) When terminate() fails on the timeout path the outcome   *)
(* is still the timeout.  (iii) The cleanup of the working directory,      *)
(* failing or not, leaves the outcome decided before it as it is.          *)
(***************************************************************************)
SampleUnavailable(i) == call[i].sampled \in SampleErrors
TerminateFailed(i) ==
  call[i].expired /\ ~call[i].termSent /\ call[i].pc \in {"finally", "done"}

C24_BestEffortFailuresKeepOutcome ==
  /\ [](\A i \in DOMAIN call :
          /\ (Ended(i) /\ SampleUnavailable(i)) =>
               /\ KindOf(call[i].outcome) # "ResourceExceeded"
               /\ call[i].returncode # 0 =>
                    /\ KindOf(call[i].outcome) = "ImplementationFailure"
                    /\ call[i].outcome.n = call[i].returncode
               /\ call[i].returncode = 0 =>
                    call[i].outcome = ParseResponse(call[i].stdout)
          /\ TerminateFailed(i) => KindOf(call[i].outcome) = "TimedOut")
  /\ [][\A i \in DOMAIN call :
          (call[i].pc = "finally" /\ call[i]' # call[i]) =>
            /\ call[i].outcome.status # "none"
            /\ call[i].outcome' = call[i].outcome]_vars

\* a call returned its result although the memory sample was denied and the
\* working directory could not be deleted
C24_Witness ==
  \E i \in DOMAIN call :
    /\ Ended(i) /\ call[i].sampled = "AccessDenied" /\ call[i].rmFailed
    /\ call[i].outcome.status = "returned"
    /\ fs[call[i].workDir] = i

(***************************************************************************)
(* C25: where os.name is not 'nt' the child has the limits max_rss_mb and  *)
(* max_cpu_time of the adapter installed from the moment it is spawned,    *)
(* hence before the request is written; where os.name is 'nt' no limit is  *)
(* installed and the call goes on to spawn and supervise its child all the *)
(* same.                                                                   *)
(***************************************************************************)
C25_LimitsInstalledBeforeExec ==
  \A i \in DOMAIN call :
    /\ (call[i].spawned > 0 /\ call[i].osName # "nt") =>
         call[i].childLimits = set_resource_limits(MaxRssMb, MaxCpuTime)
    /\ call[i].spawned = 0 => (call[i].written = 0 /\ ~call[i].childLimits.installed)
    /\ call[i].osName = "nt" =>
         /\ ~call[i].childLimits.installed
         /\ call[i].outcome.exc # "ModuleNotFoundError"

(***************************************************************************)
(* C26: a compute call makes no second attempt.  It spawns at most one     *)
(* child, writes at most one request, to that child, and reads the output  *)
(* at most once; a call that ends as a success or as one of the failure    *)
(* kinds has spawned exactly one child and written exactly one request,    *)
(* and once the outcome is decided only the cleanup follows.               *)
(***************************************************************************)
C26_NoRetries ==
  \A i \in DOMAIN call :
    /\ call[i].spawned <= 1
    /\ call[i].written <= call[i].spawned
    /\ call[i].reads <= call[i].written
    /\ (Ended(i) /\ call[i].useSubprocess /\ KindOf(call[i].outcome) \in Taxonomy) =>
         (call[i].spawned = 1 /\ call[i].written = 1)
    /\ (Ended(i) /\ ExitedInTime(i)) => call[i].reads = 1
    /\ call[i].outcome.status # "none" => call[i].pc \in {"finally", "done"}

\* a call whose child failed has ended after one child and one request
C26_Witness ==
  \E i \in DOMAIN call :
    /\ Ended(i) /\ KindOf(call[i].outcome) = "ImplementationFailure"
    /\ call[i].useSubprocess
    /\ call[i].spawned = 1 /\ call[i].written = 1 /\ call[i].reads = 1

(***************************************************************************)
(* C27: the tests of a payload complete in any order.  Each result is kept *)
(* under the key of the implementation that produced it, each key once;    *)
(* the comparison is made only when every submitted test has completed;    *)
(* and all_match is the value the comparison gives for the same results in *)
(* every other order of completion.                                        *)
(***************************************************************************)
\* the results in the order given by the permutation f of their positions
Reordered(results, f) == [k \in 1..Len(results) |-> results[f[k]]]

C27_CompletionOrderIrrelevant ==
  /\ Len(run.keys) = Len(run.results)
  /\ \A k \in 1..Len(run.results) :
       /\ run.results[k].implementation = run.keys[k]
       /\ run.keys[k] \in run.implementations
       /\ run.test[run.keys[k]].pc = "collected"
       /\ run.test[run.keys[k]].result = run.results[k]
       /\ \A l \in 1..Len(run.results) : run.keys[k] = run.keys[l] => k = l
  /\ run.compared =>
       /\ \A p \in run.implementations : run.test[p].pc = "collected"
       /\ \A f \in Permutations(1..Len(run.results)) :
            CompareResults(Reordered(run.results, f), run.expected_swhid).all_match
              = run.comparison.all_match

\* three tests completed in an order that is not the order of submission,
\* and agree with the expected SWHID
C27_Witness ==
  /\ run.compared
  /\ run.keys = <<"rust", "git", "python">>
  /\ run.expected_swhid = JStr(SwhidA)
  /\ run.comparison.all_match

(***************************************************************************)
(* C28: nothing of a compute call outlives it, in either mode.  When every *)
(* call made so far has ended, no working directory of a call whose        *)
(* deletion did not fail is left, no child of a call is running or waits   *)
(* to be reaped, and the resource limits of the calling process are what   *)
(* they were before the first call.                                        *)
(***************************************************************************)
C28_NothingPersists ==
  (\A i \in DOMAIN call : call[i].pc \in {"idle", "done"}) =>
    /\ \A i \in DOMAIN call :
         /\ (Ended(i) /\ call[i].mk = 1 /\ ~call[i].rmFailed) => fs[call[i].workDir] = 0
         /\ Ended(i) => call[i].child \in {"none", "reaped"}
    /\ proc = IdleProc

(***************************************************************************)
(* C29: in in-process mode the address-space limit is applied (or its      *)
(* failure logged) before the wrapped implementation is invoked; the       *)
(* implementation is invoked exactly once, also when the limit could not   *)
(* be installed; and its result is returned only if the RSS and the CPU    *)
(* time measured after the call are both within their ceilings.            *)
(***************************************************************************)
C29_InProcessMonitoring ==
  \A i \in DOMAIN call :
    ~call[i].useSubprocess =>
      /\ call[i].invoked <= 1
      /\ call[i].invoked = 1 =>
           /\ call[i].limitSet \in {"set", "warning"}
           /\ call[i].limitSet = "set" => proc.rlimitAs = MaxRssMb
      /\ call[i].pc \in {"checklimits", "done"} => call[i].invoked = 1
      /\ call[i].outcome.status = "returned" =>
           /\ Ended(i) /\ call[i].ran = "returned"
           /\ call[i].outcome.value = call[i].result
           /\ call[i].endRssKb <= MaxRssMb * 1024
           /\ call[i].cpuMs <= MaxCpuTime * 1000
      /\ call[i].spawned = 0 /\ call[i].mk = 0

\* the limit could not be installed and the call returned the result of
\* the implementation, measured at the CPU ceiling
C29_Witness ==
  \E i \in DOMAIN call :
    /\ Ended(i) /\ ~call[i].useSubprocess
    /\ call[i].limitSet = "warning" /\ proc = IdleProc
    /\ call[i].invoked = 1 /\ call[i].cpuMs = MaxCpuTime * 1000
    /\ call[i].outcome = Returned(call[i].result)

(***************************************************************************)
(* C30: the two adapters supervise alike.  A call of SubprocessAdapter in  *)
(* subprocess mode and a call of JSONProtocolAdapter that spawned a child  *)
(* and saw the same behaviour of the child and of the platform (exit code, *)
(* stdout, stderr, memory sample, time of exit against the timeout and the *)
(* grace period, terminate() allowed or not, deletion failing or not) end  *)
(* with the same kind of outcome, the same result on success, the same     *)
(* outcome in every part but the prefix of the non-zero-exit message, and  *)
(* the same termination and cleanup steps.                                 *)
(***************************************************************************)
ChildBehaviour(i) ==
  [exitCode |-> call[i].exitCode, out |-> call[i].out, err |-> call[i].err,
   peakKb |-> call[i].peakKb, sampled |-> call[i].sampled, rss |-> call[i].rss,
   expired |-> call[i].expired, clock |-> call[i].clock, grace |-> call[i].grace,
   graceExpired |-> call[i].graceExpired,
   terminateDenied |-> call[i].expired /\ ~call[i].termSent,
   monitorFailed |-> call[i].outcome.exc = "psutil.Error",
   rmFailed |-> call[i].rmFailed]

\* what the call did about its child and its directory
Steps(i) ==
  [spawned |-> call[i].spawned, written |-> call[i].written, reads |-> call[i].reads,
   termSent |-> call[i].termSent, killSent |-> call[i].killSent,
   child |-> call[i].child, mk |-> call[i].mk, rm |-> call[i].rm,
   dirLeft |-> fs[call[i].workDir] = i]

====
